---- MODULE Spec2Model ----
(***************************************************************************)
(* VortexL2 port-forwarding control plane.                                 *)
(*                                                                         *)
(* The persisted rule store (one forwarded_ports list per tunnel YAML      *)
(* file), the three forwarding backends (asyncio relay, HAProxy, socat)    *)
(* and the menu / daemon layer that selects one of them by forward mode.   *)
(* External commands (haproxy -c, systemctl, socat, pkill) are inputs:     *)
(* every handler takes the outcome of each command it runs as a parameter. *)
(***************************************************************************)
EXTENDS Integers, Sequences, FiniteSets, TLC

\* Ports are 1..MaxPort.
MaxPort == 2

\* At most MaxOther ports are held by unrelated processes at a time.
MaxOther == 1

Ports == 1..MaxPort

\* ConfigManager.list_tunnels: the tunnel files, sorted by name.
list_tunnels == <<"t1", "t2">>

Tunnels == {list_tunnels[i] : i \in 1..Len(list_tunnels)}

Backends == {"relay", "haproxy", "socat"}

\* The ports a caller asks for: any port for the first tunnel, the highest
\* one for the second.
TunnelPorts(t) == IF t = "t1" THEN Ports ELSE {MaxPort}

VARIABLES
    disk,        \* tunnel -> forwarded_ports list in the tunnel's YAML file
    mem,         \* tunnel -> forwarded_ports list of the loaded TunnelConfig
    liveCfg,     \* /etc/haproxy/haproxy.cfg
    backupCfg,   \* /etc/haproxy/haproxy.cfg.bak
    hapRunning,  \* the haproxy process is up
    hapBound,    \* ports the running haproxy listens on
    socatProcs,  \* ports with a live socat helper
    otherBound,  \* ports bound by processes unrelated to the system
    servers,     \* tunnel -> keys of ForwardManager.servers (relay backend)
    backend,     \* the backend whose operations the caller is using
    mode,        \* persisted forward_mode of the global config
    daemon,      \* "off", or the mode the running forward daemon started with
    sw,          \* the menu's mode-switch handler: position and what it saw
    last,        \* the most recent operation and its result
    active_sessions, \* ForwardServer.active_sessions of one relay listener
    stats,       \* ForwardServer.stats of that listener
    conn,        \* connection -> where its handle_client coroutine stands
    fservers,    \* the ForwardServer objects of the relay manager's process
    serverOf,    \* ForwardManager.servers of one tunnel: port -> object
    commitStep,  \* the commit of the HAProxy configuration under way
    stopStep,    \* the stop_all_forwards of the socat backend under way
    daemonProc,  \* the forward daemon process: ForwardDaemon and its tasks
    copies       \* manager instance -> the forwarded_ports it holds in memory

vars == <<disk, mem, liveCfg, backupCfg, hapRunning, hapBound, socatProcs,
          otherBound, servers, backend, mode, daemon, sw, last,
          active_sessions, stats, conn, fservers, serverOf, commitStep,
          stopStep, daemonProc, copies>>

-----------------------------------------------------------------------------
(* Values *)

Range(s) == {s[i] : i \in 1..Len(s)}

RemoveFirst(s, x) ==
    LET i == CHOOSE k \in 1..Len(s) : s[k] = x /\ \A j \in 1..(k - 1) : s[j] # x
    IN  SubSeq(s, 1, i - 1) \o SubSeq(s, i + 1, Len(s))

\* TunnelConfig.remote_forward_ip: set at tunnel creation, never empty.
remote_forward_ip(t) == IF t = "t1" THEN "10.0.0.2" ELSE "10.0.0.3"

AbsentFile == [exists |-> FALSE, generated |-> FALSE, stanzas |-> <<>>]

\* A configuration that was not written by this system: the one the haproxy
\* package installs.
ExternalFile == [exists |-> TRUE, generated |-> FALSE, stanzas |-> <<>>]

\* The whole state the handlers read and write, as one value.
World ==
    [disk |-> disk, mem |-> mem, live |-> liveCfg, backup |-> backupCfg,
     hapRunning |-> hapRunning, hapBound |-> hapBound, socat |-> socatProcs,
     other |-> otherBound, servers |-> servers, mode |-> mode,
     daemon |-> daemon]

Install(w) ==
    /\ disk' = w.disk
    /\ mem' = w.mem
    /\ liveCfg' = w.live
    /\ backupCfg' = w.backup
    /\ hapRunning' = w.hapRunning
    /\ hapBound' = w.hapBound
    /\ socatProcs' = w.socat
    /\ otherBound' = w.other
    /\ servers' = w.servers
    /\ mode' = w.mode
    /\ daemon' = w.daemon

Res(w, ok, why) == [w |-> w, ok |-> ok, why |-> why]

-----------------------------------------------------------------------------
(* config.py: TunnelConfig *)

\* A setter that forgets to save the file.
set_forwarded_ports_unsaved(w, t, ports) == [w EXCEPT !.mem[t] = ports]

\* The setter of forwarded_ports stores the list and saves the file.
set_forwarded_ports(w, t, ports) ==
    [w EXCEPT !.mem[t] = ports, !.disk[t] = ports]

add_port(w, t, p) ==
    IF p \notin Range(w.mem[t])
    THEN set_forwarded_ports(w, t, Append(w.mem[t], p))
    ELSE w

remove_port(w, t, p) ==
    IF p \in Range(w.mem[t])
    THEN set_forwarded_ports(w, t, RemoveFirst(w.mem[t], p))
    ELSE w

\* Ports forwarded by any tunnel, as the files say.
StorePorts(w) == UNION {Range(w.disk[t]) : t \in Tunnels}

-----------------------------------------------------------------------------
(* haproxy_manager.py *)

\* What the external commands of one commit do: the validator rejects the
\* candidate ("invalid"), a step before the replacement raises ("error"), or
\* the validator accepts it and systemctl reload / restart end as named.
CommitOutcomes ==
    {"invalid", "error", "reload_ok", "restart_ok", "fail_down", "fail_same"}

HapStopOutcomes == {"stopped", "still_up", "exception"}

Stanzas(t, ports) ==
    [i \in 1..Len(ports) |->
        [tunnel |-> t, port |-> ports[i], remote |-> remote_forward_ip(t)]]

RECURSIVE StanzasFrom(_, _)
StanzasFrom(w, i) ==
    IF i > Len(list_tunnels) THEN <<>>
    ELSE LET t == list_tunnels[i]
         IN  IF remote_forward_ip(t) = "" \/ w.disk[t] = <<>>
             THEN StanzasFrom(w, i + 1)
             ELSE Stanzas(t, w.disk[t]) \o StanzasFrom(w, i + 1)

\* A generator that writes the pairs of the first tunnel only.
generate_haproxy_config_onetunnel(w) ==
    [exists |-> TRUE, generated |-> TRUE,
     stanzas |-> IF w.disk[list_tunnels[1]] = <<>> THEN <<>>
                 ELSE Stanzas(list_tunnels[1], w.disk[list_tunnels[1]])]

\* One backend/frontend pair per (tunnel, port) of every tunnel file.
generate_haproxy_config(w) ==
    [exists |-> TRUE, generated |-> TRUE, stanzas |-> StanzasFrom(w, 1)]

\* The ports a configuration file binds.
CfgPorts(cfg) == {cfg.stanzas[i].port : i \in 1..Len(cfg.stanzas)}

\* ss / netstat show a listener on the port.
is_port_listening(w, p) == p \in (w.hapBound \cup w.socat \cup w.other)

\* A writer that copies the live file to the backup on every commit.
write_config_file_rebackup(w, content, c) ==
    IF c = "error" THEN Res(w, FALSE, "write_error")
    ELSE LET w1 == IF w.live.exists
                   THEN [w EXCEPT !.backup = w.live]
                   ELSE w
         IN  IF c = "invalid" THEN Res(w1, FALSE, "validate")
             ELSE Res([w1 EXCEPT !.live = content], TRUE, "ok")

\* A writer that replaces the live file before it asks the validator.
write_config_file_unvalidated(w, content, c) ==
    IF c = "error" THEN Res(w, FALSE, "write_error")
    ELSE LET w1 == IF w.live.exists /\ ~w.backup.exists
                   THEN [w EXCEPT !.backup = w.live]
                   ELSE w
             w2 == [w1 EXCEPT !.live = content]
         IN  IF c = "invalid" THEN Res(w2, FALSE, "validate")
             ELSE Res(w2, TRUE, "ok")

\* Backup once, write the temporary file, validate it, replace the live file.
write_config_file(w, content, c) ==
    IF c = "error" THEN Res(w, FALSE, "write_error")
    ELSE LET w1 == IF w.live.exists /\ ~w.backup.exists
                   THEN [w EXCEPT !.backup = w.live]
                   ELSE w
         IN  IF c = "invalid" THEN Res(w1, FALSE, "validate")
             ELSE Res([w1 EXCEPT !.live = content], TRUE, "ok")

\* Were the socat helpers launched with reuseport, haproxy could bind beside
\* them.
Bindable_reuseport(w) == CfgPorts(w.live) \cap w.other = {}

\* haproxy can take the live configuration only if no other process holds
\* one of its ports: the helpers listen with reuseaddr, which shares nothing.
Bindable(w) == CfgPorts(w.live) \cap (w.socat \cup w.other) = {}

\* systemctl reload haproxy, and systemctl restart haproxy if that fails.
reload_haproxy(w, c) ==
    IF c = "reload_ok" /\ w.hapRunning /\ Bindable(w)
    THEN Res([w EXCEPT !.hapBound = CfgPorts(w.live)], TRUE, "ok")
    ELSE IF c \in {"reload_ok", "restart_ok"} /\ Bindable(w)
    THEN Res([w EXCEPT !.hapRunning = TRUE, !.hapBound = CfgPorts(w.live)],
             TRUE, "ok")
    ELSE IF c = "fail_same"
    THEN Res(w, FALSE, "reload")
    ELSE Res([w EXCEPT !.hapRunning = FALSE, !.hapBound = {}], FALSE, "reload")

\* create_forward without the rollback of the store after a failed commit.
haproxy_create_forward_norollback(w, t, p, c) ==
    IF p \in Range(w.mem[t]) THEN Res(w, FALSE, "already")
    ELSE IF is_port_listening(w, p) THEN Res(w, FALSE, "conflict")
    ELSE LET w1 == add_port(w, t, p)
             wr == write_config_file(w1, generate_haproxy_config(w1), c)
         IN  IF ~wr.ok THEN Res(wr.w, FALSE, wr.why)
             ELSE LET rr == reload_haproxy(wr.w, c)
                  IN  IF ~rr.ok THEN Res(rr.w, FALSE, "reload")
                      ELSE Res(rr.w, TRUE, "ok")

haproxy_create_forward(w, t, p, c) ==
    IF p \in Range(w.mem[t]) THEN Res(w, FALSE, "already")
    ELSE IF is_port_listening(w, p) THEN Res(w, FALSE, "conflict")
    ELSE LET w1 == add_port(w, t, p)
             wr == write_config_file(w1, generate_haproxy_config(w1), c)
         IN  IF ~wr.ok THEN Res(remove_port(wr.w, t, p), FALSE, wr.why)
             ELSE LET rr == reload_haproxy(wr.w, c)
                  IN  IF ~rr.ok
                      THEN Res(remove_port(rr.w, t, p), FALSE, "reload")
                      ELSE Res(rr.w, TRUE, "ok")

\* remove_forward without the rollback of the store after a failed commit.
haproxy_remove_forward_norollback(w, t, p, c) ==
    IF p \notin Range(w.mem[t]) THEN Res(w, FALSE, "not_found")
    ELSE LET w1 == remove_port(w, t, p)
             wr == write_config_file(w1, generate_haproxy_config(w1), c)
         IN  IF ~wr.ok THEN Res(wr.w, FALSE, wr.why)
             ELSE LET rr == reload_haproxy(wr.w, c)
                  IN  IF ~rr.ok THEN Res(rr.w, FALSE, "reload")
                      ELSE Res(rr.w, TRUE, "ok")

haproxy_remove_forward(w, t, p, c) ==
    IF p \notin Range(w.mem[t]) THEN Res(w, FALSE, "not_found")
    ELSE LET w1 == remove_port(w, t, p)
             wr == write_config_file(w1, generate_haproxy_config(w1), c)
         IN  IF ~wr.ok THEN Res(add_port(wr.w, t, p), FALSE, wr.why)
             ELSE LET rr == reload_haproxy(wr.w, c)
                  IN  IF ~rr.ok
                      THEN Res(add_port(rr.w, t, p), FALSE, "reload")
                      ELSE Res(rr.w, TRUE, "ok")

\* The ports of the entries list_forwards returns: every tunnel file.
haproxy_list_forwards(w) ==
    UNION {Range(w.disk[t]) : t \in {u \in Tunnels : remote_forward_ip(u) # ""}}

haproxy_validate_and_reload(w, c) ==
    LET wr == write_config_file(w, generate_haproxy_config(w), c)
    IN  IF ~wr.ok THEN wr
        ELSE reload_haproxy(wr.w, c)

\* The pid file /var/run/haproxy.pid is there while haproxy runs.
haproxy_start_all_forwards(w, c) ==
    IF \A t \in Tunnels : w.disk[t] = <<>> THEN Res(w, TRUE, "none")
    ELSE LET wr == write_config_file(w, generate_haproxy_config(w), c)
         IN  IF ~wr.ok THEN wr
             ELSE IF wr.w.hapRunning THEN reload_haproxy(wr.w, c)
             ELSE IF c \in {"reload_ok", "restart_ok"} /\ Bindable(wr.w)
             THEN Res([wr.w EXCEPT !.hapRunning = TRUE,
                                   !.hapBound = CfgPorts(wr.w.live)],
                      TRUE, "ok")
             ELSE Res(wr.w, FALSE, "launch")

\* A stop_all_forwards without its try block: what subprocess.run raises
\* leaves the call.
haproxy_stop_all_forwards_uncaught(w, s) ==
    IF s = "exception" THEN Res(w, FALSE, "raised")
    ELSE IF s = "stopped"
    THEN Res([w EXCEPT !.hapRunning = FALSE, !.hapBound = {}], TRUE, "ok")
    ELSE Res(w, TRUE, "ok")

\* systemctl stop haproxy; its return code is not looked at.
haproxy_stop_all_forwards(w, s) ==
    IF s = "exception" THEN Res(w, FALSE, "exception")
    ELSE IF s = "stopped"
    THEN Res([w EXCEPT !.hapRunning = FALSE, !.hapBound = {}], TRUE, "ok")
    ELSE Res(w, TRUE, "ok")

\* No commit under way: pc the statement the call stands at, tmp the file
\* haproxy.cfg.tmp, hist the steps of the current commit in the order they
\* were made, op and p the call that commits.
IdleCommit == [pc |-> "idle", tmp |-> AbsentFile, hist |-> <<>>,
               op |-> "none", p |-> 0]

InitCommit == commitStep = IdleCommit

-----------------------------------------------------------------------------
(* socat_manager.py *)

SocatOutcomes == {"up", "no_listen", "launch_fail", "not_installed"}

SocatBatchOutcomes == {"up", "no_listen"}

SocatKillOutcomes == {"killed", "survives"}

start_forward(w, p, o) ==
    IF o = "not_installed" THEN Res(w, FALSE, "not_installed")
    ELSE IF is_port_listening(w, p) THEN Res(w, FALSE, "conflict")
    ELSE IF o = "launch_fail" THEN Res(w, FALSE, "launch")
    ELSE IF o = "up" THEN Res([w EXCEPT !.socat = @ \cup {p}], TRUE, "ok")
    ELSE Res(w, FALSE, "no_listen")

\* A stop_forward that does not look at the port again after the signal.
stop_forward_unverified(w, p, k) ==
    IF ~is_port_listening(w, p) THEN Res(w, TRUE, "not_forwarded")
    ELSE LET w1 == IF k = "killed" THEN [w EXCEPT !.socat = @ \ {p}] ELSE w
         IN  Res(w1, TRUE, "ok")

stop_forward(w, p, k) ==
    IF ~is_port_listening(w, p) THEN Res(w, TRUE, "not_forwarded")
    ELSE LET w1 == IF k = "killed" THEN [w EXCEPT !.socat = @ \ {p}] ELSE w
         IN  IF ~is_port_listening(w1, p) THEN Res(w1, TRUE, "ok")
             ELSE Res(w1, FALSE, "still_listening")

\* A create_forward that saves the port before it starts the helper.
socat_create_forward_savefirst(w, t, p, o) ==
    IF p \in Range(w.mem[t]) THEN Res(w, FALSE, "already")
    ELSE IF remote_forward_ip(t) = "" THEN Res(w, FALSE, "no_remote")
    ELSE LET sr == start_forward(add_port(w, t, p), p, o)
         IN  IF ~sr.ok THEN sr
             ELSE Res(sr.w, TRUE, "ok")

socat_create_forward(w, t, p, o) ==
    IF p \in Range(w.mem[t]) THEN Res(w, FALSE, "already")
    ELSE IF remote_forward_ip(t) = "" THEN Res(w, FALSE, "no_remote")
    ELSE LET sr == start_forward(w, p, o)
         IN  IF ~sr.ok THEN sr
             ELSE Res(add_port(sr.w, t, p), TRUE, "ok")

\* remove_forward without the test of the forwarded list.
socat_remove_forward_unchecked(w, t, p, k) ==
    LET sr == stop_forward(w, p, k)
    IN  IF ~sr.ok THEN sr
        ELSE Res(remove_port(sr.w, t, p), TRUE, "ok")

socat_remove_forward(w, t, p, k) ==
    IF p \notin Range(w.mem[t]) THEN Res(w, FALSE, "not_found")
    ELSE LET sr == stop_forward(w, p, k)
         IN  IF ~sr.ok THEN sr
             ELSE Res(remove_port(sr.w, t, p), TRUE, "ok")

socat_list_forwards(w) ==
    UNION {Range(w.disk[t]) : t \in {u \in Tunnels : remote_forward_ip(u) # ""}}

\* start_forward for every port of every tunnel file, in order; f gives the
\* helper's outcome per port.
RECURSIVE StartPorts(_, _, _, _)
StartPorts(acc, ports, i, f) ==
    IF i > Len(ports) THEN acc
    ELSE LET sr == start_forward(acc.w, ports[i], f[ports[i]])
         IN  StartPorts(Res(sr.w, acc.ok /\ sr.ok,
                            IF sr.ok THEN acc.why ELSE "errors"),
                        ports, i + 1, f)

RECURSIVE StartTunnels(_, _, _)
StartTunnels(acc, i, f) ==
    IF i > Len(list_tunnels) THEN acc
    ELSE LET t == list_tunnels[i]
         IN  IF remote_forward_ip(t) = "" THEN StartTunnels(acc, i + 1, f)
             ELSE StartTunnels(StartPorts(acc, acc.w.disk[t], 1, f), i + 1, f)

\* A start_all_forwards that drops the ports whose helper did not come up.
socat_start_all_forwards_pruning(w, f) ==
    LET r == StartTunnels(Res(w, TRUE, "ok"), 1, f)
        kept == [t \in Tunnels |->
                    SelectSeq(r.w.disk[t], LAMBDA p : p \in r.w.socat)]
    IN  Res([r.w EXCEPT !.disk = kept, !.mem = kept], r.ok, r.why)

socat_start_all_forwards(w, f) == StartTunnels(Res(w, TRUE, "ok"), 1, f)

\* pkill of every helper, the polls, kill -9 of the pids still there, the
\* final look.  grace: helpers alive after the grace window; surv: helpers
\* alive after kill -9.
socat_stop_all_forwards(w, grace, surv) ==
    LET late == w.socat \cap grace
        left == late \cap surv
    IN  IF late = {} THEN Res([w EXCEPT !.socat = {}], TRUE, "ok")
        ELSE IF left = {} THEN Res([w EXCEPT !.socat = {}], TRUE, "forced")
        ELSE Res([w EXCEPT !.socat = left], FALSE, "stuck")

-----------------------------------------------------------------------------
(* forward.py: ForwardManager (relay backend) *)

\* ForwardManager.__init__: a new manager has no server yet, whatever the
\* tunnel file lists.
relay_new(w) == [w EXCEPT !.servers = [t \in Tunnels |-> {}]]

relay_create_forward(w, t, p) ==
    IF remote_forward_ip(t) = "" THEN Res(w, FALSE, "no_remote")
    ELSE IF p \in w.servers[t] THEN Res(w, FALSE, "already")
    ELSE Res(add_port([w EXCEPT !.servers[t] = @ \cup {p}], t, p), TRUE, "ok")

relay_remove_forward(w, t, p) ==
    IF p \notin w.servers[t] THEN Res(w, FALSE, "not_found")
    ELSE Res(remove_port([w EXCEPT !.servers[t] = @ \ {p}], t, p), TRUE, "ok")

relay_list_forwards(w, t) == Range(w.mem[t])

-----------------------------------------------------------------------------
(* forward.py: ForwardServer (one relay listener and its connections) *)

\* The listener accepts at most MaxConns connections.
MaxConns == 2

Conns == 1..MaxConns

\* At most MaxBytes bytes arrive at one listener, in chunks of any length.
MaxBytes == 3

RECURSIVE Sum(_, _)
Sum(f, S) ==
    IF S = {} THEN 0
    ELSE LET x == CHOOSE y \in S : TRUE IN f[x] + Sum(f, S \ {x})

\* A connection the listener has not accepted yet.  pc is the await the
\* handler is suspended at, fwd and bwd the two _relay_data tasks, lost and
\* rlost how the client and the remote transport went down; bytes_sent and
\* bytes_received are the counters of its ForwardSession, from_client and
\* from_remote the bytes reader.read() has returned from either side.
FreeConn == [pc |-> "free", fwd |-> "none", bwd |-> "none",
             lost |-> "open", rlost |-> "open", raised |-> FALSE,
             bytes_sent |-> 0, bytes_received |-> 0,
             from_client |-> 0, from_remote |-> 0]

ConnectOutcomes == {"connected", "timeout", "refused"}

\* writer.wait_closed() returns once the transport is closed, and raises the
\* error the connection was lost with, every time it is awaited.
WaitClosedOutcomes(how) == IF how = "open" THEN {"clean", "error"} ELSE {how}

InitSessions ==
    /\ active_sessions = {}
    /\ stats = [connections |-> 0, total_bytes_sent |-> 0,
                total_bytes_received |-> 0, errors |-> 0]
    /\ conn = [c \in Conns |-> FreeConn]

\* handle_client up to its first await: the session is appended and counted,
\* then the handler waits for open_connection.
Accept(c) ==
    /\ conn[c].pc = "free"
    /\ active_sessions' = active_sessions \cup {c}
    /\ stats' = [stats EXCEPT !.connections = @ + 1]
    /\ conn' = [conn EXCEPT ![c].pc = "connecting"]

\* open_connection returns, times out or fails.  After a failure the handler
\* closes the client side and waits for it; after a success it creates the
\* two relay tasks and waits for both.
Connect(c, o) ==
    /\ conn[c].pc = "connecting"
    /\ conn' = IF o = "connected"
               THEN [conn EXCEPT ![c].pc = "relaying", ![c].fwd = "run",
                                 ![c].bwd = "run"]
               ELSE [conn EXCEPT ![c].pc = "fail_close"]
    /\ UNCHANGED <<active_sessions, stats>>

\* An except branch that counts the error before it waits for the close.
FailClosed_countfirst(c, r) ==
    /\ conn[c].pc = "fail_close"
    /\ r \in WaitClosedOutcomes(conn[c].lost)
    /\ conn' = [conn EXCEPT ![c].pc = "final_close", ![c].lost = r]
    /\ stats' = [stats EXCEPT !.errors = @ + (IF r = "clean" THEN 1 ELSE 2)]
    /\ UNCHANGED active_sessions

\* wait_closed() of the except branch returns, and errors is counted there,
\* or raises, and errors is counted by the outer except; either way the
\* finally block closes the client side again and waits for it.
FailClosed(c, r) ==
    /\ conn[c].pc = "fail_close"
    /\ r \in WaitClosedOutcomes(conn[c].lost)
    /\ conn' = [conn EXCEPT ![c].pc = "final_close", ![c].lost = r]
    /\ stats' = [stats EXCEPT !.errors = @ + 1]
    /\ UNCHANGED active_sessions

\* The bytes all the reads of the listener have returned so far.
BytesRead ==
    Sum([c \in Conns |-> conn[c].from_client + conn[c].from_remote], Conns)

\* A _relay_data loop that counts a chunk once it has been written and
\* flushed.
RelayData_countlate(c, d, n, w) ==
    /\ conn[c][d] = "run"
    /\ n >= 1 /\ BytesRead + n <= MaxBytes
    /\ LET k == IF w = "ok" THEN n ELSE 0
       IN  IF d = "fwd"
           THEN /\ conn' = [conn EXCEPT
                        ![c].from_client = @ + n,
                        ![c].bytes_sent = @ + k,
                        ![c].fwd = IF w = "ok" THEN "run" ELSE "closing"]
                /\ stats' = [stats EXCEPT !.total_bytes_sent = @ + k]
           ELSE /\ conn' = [conn EXCEPT
                        ![c].from_remote = @ + n,
                        ![c].bytes_received = @ + k,
                        ![c].bwd = IF w = "ok" THEN "run" ELSE "closing"]
                /\ stats' = [stats EXCEPT !.total_bytes_received = @ + k]
    /\ UNCHANGED active_sessions

\* One turn of the _relay_data loop: reader.read() returns n bytes, the
\* counters of the session and of the listener are advanced by n, the chunk
\* is written and drained; if that raises, the task closes its writer.
RelayData(c, d, n, w) ==
    /\ conn[c][d] = "run"
    /\ n >= 1 /\ BytesRead + n <= MaxBytes
    /\ IF d = "fwd"
       THEN /\ conn' = [conn EXCEPT
                    ![c].from_client = @ + n,
                    ![c].bytes_sent = @ + n,
                    ![c].fwd = IF w = "ok" THEN "run" ELSE "closing"]
            /\ stats' = [stats EXCEPT !.total_bytes_sent = @ + n]
       ELSE /\ conn' = [conn EXCEPT
                    ![c].from_remote = @ + n,
                    ![c].bytes_received = @ + n,
                    ![c].bwd = IF w = "ok" THEN "run" ELSE "closing"]
            /\ stats' = [stats EXCEPT !.total_bytes_received = @ + n]
    /\ UNCHANGED active_sessions

\* _relay_data leaves its loop (end of stream, idle timeout, or an error it
\* catches), closes its writer and waits for it.
RelayEnd(c, d) ==
    /\ conn[c][d] = "run"
    /\ conn' = [conn EXCEPT ![c][d] = "closing"]
    /\ UNCHANGED <<active_sessions, stats>>

\* wait_closed() in the finally block of _relay_data: the task ends, with
\* the error of the transport if there was one.  The writer of the
\* client->remote task is the remote side, that of the other the client side.
RelayClosed(c, d, r) ==
    /\ conn[c][d] = "closing"
    /\ r \in WaitClosedOutcomes(IF d = "fwd" THEN conn[c].rlost
                                ELSE conn[c].lost)
    /\ conn' = [conn EXCEPT ![c][d] = IF r = "clean" THEN "done" ELSE "raised",
                            ![c].rlost = IF d = "fwd" THEN r ELSE @,
                            ![c].lost = IF d = "bwd" THEN r ELSE @]
    /\ UNCHANGED <<active_sessions, stats>>

\* asyncio.gather returns when both tasks are done, and raises as soon as
\* one of them has raised; the outer except counts the error.  Then the
\* finally block closes the client side and waits for it.
Gather(c) ==
    /\ conn[c].pc = "relaying"
    /\ \/ conn[c].fwd = "done" /\ conn[c].bwd = "done"
       \/ "raised" \in {conn[c].fwd, conn[c].bwd}
    /\ conn' = [conn EXCEPT ![c].pc = "final_close"]
    /\ stats' = IF "raised" \in {conn[c].fwd, conn[c].bwd}
                THEN [stats EXCEPT !.errors = @ + 1]
                ELSE stats
    /\ UNCHANGED active_sessions

\* wait_closed() of the finally block returns and the session is removed, or
\* raises and the handler ends there.
FinalClosed(c, r) ==
    /\ conn[c].pc = "final_close"
    /\ r \in WaitClosedOutcomes(conn[c].lost)
    /\ conn' = [conn EXCEPT ![c].pc = "finished", ![c].lost = r,
                            ![c].raised = (r = "error")]
    /\ active_sessions' = IF r = "clean" THEN active_sessions \ {c}
                          ELSE active_sessions
    /\ UNCHANGED stats

-----------------------------------------------------------------------------
(* forward.py: ForwardManager and its ForwardServer objects (listeners) *)

\* At most MaxServers ForwardServer objects are alive at a time, and at most
\* MaxTasks start tasks are waiting to run.
MaxServers == 2

MaxTasks == 2

ServerIds == 1..MaxServers

\* A ForwardServer: its port, its running flag, whether self.server is a
\* listening socket, and the server.start() tasks created and not yet run.
\* port 0: no such object.
NoServer == [port |-> 0, running |-> FALSE, bound |-> FALSE, tasks |-> 0]

ForwardServer(p) == [NoServer EXCEPT !.port = p]

InitListeners ==
    /\ fservers = [i \in ServerIds |-> NoServer]
    /\ serverOf = [p \in Ports |-> 0]

\* The manager and its objects as one value: objs the objects, of the
\* dictionary self.servers.
Listeners == [objs |-> fservers, of |-> serverOf]

\* An object no dictionary entry, task or socket refers to is gone.
Collect(l) ==
    [l EXCEPT !.objs =
        [i \in ServerIds |->
            IF /\ \A p \in Ports : l.of[p] # i
               /\ ~l.objs[i].bound /\ l.objs[i].tasks = 0
            THEN NoServer ELSE l.objs[i]]]

FreeIds(l) == {i \in ServerIds : l.objs[i].port = 0}

NewId(l) == CHOOSE i \in FreeIds(l) : \A j \in FreeIds(l) : i <= j

\* The ports some listening socket of this process holds.
ListenerPorts(objs) == {objs[i].port : i \in {j \in ServerIds : objs[j].bound}}

\* create_forward: a new ForwardServer under self.servers[port].
listen_create(l, p) ==
    LET i == NewId(l)
    IN  [l EXCEPT !.objs[i] = ForwardServer(p), !.of[p] = i]

\* remove_forward: del self.servers[port]; the object is not stopped.
listen_remove(l, p) == Collect([l EXCEPT !.of[p] = 0])

\* start_all_forwards, one forwarded port after the other: the object is
\* created if the dictionary lacks it, and a start task is created unless the
\* object says it is running.
RECURSIVE StartEach(_, _, _)
StartEach(l, ports, k) ==
    IF k > Len(ports) THEN l
    ELSE LET p == ports[k]
             l1 == IF l.of[p] = 0 THEN listen_create(l, p) ELSE l
             i == l1.of[p]
             l2 == IF l1.objs[i].running THEN l1
                   ELSE [l1 EXCEPT !.objs[i].tasks = @ + 1]
         IN  StartEach(l2, ports, k + 1)

listen_start_all(l, ports) == StartEach(l, ports, 1)

\* ForwardServer.stop: close the socket if there is one, clear the flag.
server_stop(o) == [o EXCEPT !.bound = FALSE, !.running = FALSE]

\* stop_all_forwards: stop() of every object of the dictionary whose running
\* flag is set, all awaited.
listen_stop_all(l) ==
    Collect([l EXCEPT !.objs =
        [i \in ServerIds |->
            IF (\E p \in Ports : l.of[p] = i) /\ l.objs[i].running
            THEN server_stop(l.objs[i]) ELSE l.objs[i]]])

\* A start task that takes the other waiting tasks down with it when the
\* bind fails.
server_start_aborting(l, i, free) ==
    IF free
    THEN [l EXCEPT !.objs[i].tasks = @ - 1, !.objs[i].bound = TRUE,
                   !.objs[i].running = TRUE]
    ELSE Collect([l EXCEPT !.objs =
            [j \in ServerIds |->
                IF j = i
                THEN [l.objs[j] EXCEPT !.tasks = 0, !.running = FALSE]
                ELSE [l.objs[j] EXCEPT !.tasks = 0]]])

\* ForwardServer.start run by the event loop: asyncio.start_server binds the
\* port and the flag is set, or raises OSError and the flag is cleared.
server_start(l, i, free) ==
    IF free
    THEN [l EXCEPT !.objs[i].tasks = @ - 1, !.objs[i].bound = TRUE,
                   !.objs[i].running = TRUE]
    ELSE Collect([l EXCEPT !.objs[i].tasks = @ - 1,
                           !.objs[i].running = FALSE])

-----------------------------------------------------------------------------
(* Processes and instances that are not there yet *)

\* No stop_all_forwards of the socat backend under way.
IdleStop == [pc |-> "idle", polls |-> 0, killed |-> {}, why |-> "none"]

\* The forward daemon before main() runs.
NoDaemon == [pc |-> "down", mode |-> "none", running |-> FALSE,
             manager |-> FALSE, tasks |-> 0, signals |-> 0,
             signalled |-> FALSE, early |-> FALSE, stopped |-> FALSE,
             stop_all |-> FALSE]

\* The manager instances of the menu.
Managers == {1, 2}

InitIdle ==
    /\ stopStep = IdleStop
    /\ daemonProc = NoDaemon
    /\ copies = [m \in Managers |-> <<>>]

-----------------------------------------------------------------------------
(* The backend contract, called directly *)

ListForwards(w, be, t) ==
    IF be = "relay" THEN relay_list_forwards(w, t)
    ELSE IF be = "haproxy" THEN haproxy_list_forwards(w)
    ELSE socat_list_forwards(w)

\* The most recent call.  fresh: no tunnel forwarded p when the call was made;
\* bound: an unrelated process held p then; after: the call before it was a
\* successful create of the same fresh port on the same tunnel and backend;
\* again: the call before it was the same request and was answered not-found.
NoOp == [op |-> "none", be |-> "none", t |-> "t1", p |-> 0, ok |-> TRUE,
         why |-> "none", fresh |-> FALSE, bound |-> FALSE, after |-> FALSE,
         again |-> FALSE]

Op(op, be, t, p, res) ==
    [op |-> op, be |-> be, t |-> t, p |-> p, ok |-> res.ok, why |-> res.why,
     fresh |-> p \notin StorePorts(World),
     bound |-> p \in otherBound,
     after |-> /\ last.op = "create" /\ last.ok /\ last.fresh
               /\ last.be = be /\ last.t = t /\ last.p = p,
     again |-> /\ last.op = op /\ last.why = "not_found"
               /\ last.be = be /\ last.t = t /\ last.p = p]

Init ==
    /\ disk = [t \in Tunnels |-> <<>>]
    /\ mem = [t \in Tunnels |-> <<>>]
    /\ liveCfg = ExternalFile
    /\ backupCfg = AbsentFile
    /\ hapRunning = FALSE
    /\ hapBound = {}
    /\ socatProcs = {}
    /\ otherBound = {}
    /\ servers = [t \in Tunnels |-> {}]
    /\ backend \in Backends
    /\ mode = "none"
    /\ daemon = "off"
    /\ sw = [pc |-> "idle"]
    /\ last = NoOp
    /\ InitSessions
    /\ InitListeners
    /\ InitCommit
    /\ InitIdle

Frame == UNCHANGED <<backend, sw, active_sessions, stats, conn,
                 fservers, serverOf, commitStep, stopStep, daemonProc,
                 copies>>

HapCreate ==
    /\ backend = "haproxy"
    /\ \E t \in Tunnels : \E p \in TunnelPorts(t), c \in CommitOutcomes :
        \E res \in {haproxy_create_forward(World, t, p, c)} :
            Install(res.w) /\ last' = Op("create", "haproxy", t, p, res)
    /\ Frame

HapRemove ==
    /\ backend = "haproxy"
    /\ \E t \in Tunnels : \E p \in TunnelPorts(t), c \in CommitOutcomes :
        \E res \in {haproxy_remove_forward(World, t, p, c)} :
            Install(res.w) /\ last' = Op("remove", "haproxy", t, p, res)
    /\ Frame

HapValidateAndReload ==
    /\ backend = "haproxy"
    /\ \E c \in CommitOutcomes :
        \E res \in {haproxy_validate_and_reload(World, c)} :
            Install(res.w) /\ last' = Op("validate", "haproxy", "t1", 0, res)
    /\ Frame

HapStartAll ==
    /\ backend = "haproxy"
    /\ \E c \in CommitOutcomes :
        \E res \in {haproxy_start_all_forwards(World, c)} :
            Install(res.w) /\ last' = Op("start_all", "haproxy", "t1", 0, res)
    /\ Frame

HapStopAll ==
    /\ backend = "haproxy"
    /\ \E s \in HapStopOutcomes :
        \E res \in {haproxy_stop_all_forwards(World, s)} :
            Install(res.w) /\ last' = Op("stop_all", "haproxy", "t1", 0, res)
    /\ Frame

SocatCreate ==
    /\ backend = "socat"
    /\ \E t \in Tunnels : \E p \in TunnelPorts(t), o \in SocatOutcomes :
        \E res \in {socat_create_forward(World, t, p, o)} :
            Install(res.w) /\ last' = Op("create", "socat", t, p, res)
    /\ Frame

SocatRemove ==
    /\ backend = "socat"
    /\ \E t \in Tunnels : \E p \in TunnelPorts(t), k \in SocatKillOutcomes :
        \E res \in {socat_remove_forward(World, t, p, k)} :
            Install(res.w) /\ last' = Op("remove", "socat", t, p, res)
    /\ Frame

SocatStartAll ==
    /\ backend = "socat"
    /\ \E f \in [Ports -> SocatBatchOutcomes] :
        \E res \in {socat_start_all_forwards(World, f)} :
            Install(res.w) /\ last' = Op("start_all", "socat", "t1", 0, res)
    /\ Frame

SocatStopAll ==
    /\ backend = "socat"
    /\ \E grace \in SUBSET Ports, surv \in SUBSET Ports :
        \E res \in {socat_stop_all_forwards(World, grace, surv)} :
            Install(res.w) /\ last' = Op("stop_all", "socat", "t1", 0, res)
    /\ Frame

RelayCreate ==
    /\ backend = "relay"
    /\ \E t \in Tunnels : \E p \in TunnelPorts(t) :
        \E res \in {relay_create_forward(World, t, p)} :
            Install(res.w) /\ last' = Op("create", "relay", t, p, res)
    /\ Frame

RelayRemove ==
    /\ backend = "relay"
    /\ \E t \in Tunnels : \E p \in TunnelPorts(t) :
        \E res \in {relay_remove_forward(World, t, p)} :
            Install(res.w) /\ last' = Op("remove", "relay", t, p, res)
    /\ Frame

\* The program is started again: the caller holds a new ForwardManager.
RelayNew ==
    /\ backend = "relay"
    /\ Install(relay_new(World))
    /\ last' = NoOp
    /\ Frame

\* An unrelated process binds a free port, or releases one it holds.
OtherBind ==
    /\ \E p \in Ports :
        /\ ~is_port_listening(World, p)
        /\ Cardinality(otherBound) < MaxOther
        /\ Install([World EXCEPT !.other = @ \cup {p}])
    /\ last' = NoOp
    /\ Frame

OtherRelease ==
    /\ \E p \in otherBound : Install([World EXCEPT !.other = @ \ {p}])
    /\ last' = NoOp
    /\ Frame

Next ==
    \/ HapCreate
    \/ HapRemove
    \/ HapValidateAndReload
    \/ HapStartAll
    \/ HapStopAll
    \/ SocatCreate
    \/ SocatRemove
    \/ SocatStartAll
    \/ SocatStopAll
    \/ RelayCreate
    \/ RelayRemove
    \/ RelayNew
    \/ OtherBind
    \/ OtherRelease

Spec == Init /\ [][Next]_vars

-----------------------------------------------------------------------------
(* main.py, forward_daemon.py: the forwards menu and the forward daemon *)

\* The menu is driven with ports 1..MaxMenuPort.
MaxMenuPort == 1

MenuPorts == 1..MaxMenuPort

\* The ports asked for in the menu: any for the first tunnel, the highest for
\* the second.
MenuTunnelPorts(t) == IF t = "t1" THEN MenuPorts ELSE {MaxMenuPort}

Modes == {"none", "haproxy", "socat"}

StartOutcomes == {"started", "start_failed"}

\* vortexl2.forward.get_forward_mode: the persisted forward_mode.
get_forward_mode(w) == w.mode

\* vortexl2.forward.set_forward_mode: persist the forward_mode.
set_forward_mode(w, m) == [w EXCEPT !.mode = m]

\* vortexl2.forward.get_forward_manager: the manager of the persisted mode,
\* "none" when forwarding is disabled.
get_forward_manager(w) == get_forward_mode(w)

\* Ports held by the processes of one backend.
BoundBy(w, be) ==
    IF be = "haproxy" THEN w.hapBound
    ELSE IF be = "socat" THEN w.socat
    ELSE {}

\* What the external commands of one handler run do: h systemctl start
\* haproxy, s systemctl stop haproxy, c the commit, surv the helpers that
\* outlive the kills, f the helper launches.  A command the run cannot reach
\* (it makes no commit, stops nothing, starts nothing) has its success value.
Envs(w, commit, stop, start) ==
    [h : IF start /\ get_forward_mode(w) = "haproxy" THEN StartOutcomes
         ELSE {"started"},
     s : IF stop /\ "haproxy" \in {get_forward_mode(w), w.daemon}
         THEN HapStopOutcomes ELSE {"stopped"},
     c : IF commit \/ (start /\ get_forward_mode(w) = "haproxy")
         THEN CommitOutcomes ELSE {"reload_ok"},
     surv : IF stop THEN SUBSET w.socat ELSE {{}},
     f : IF start /\ get_forward_mode(w) = "socat"
         THEN [MenuPorts -> SocatBatchOutcomes]
         ELSE {[p \in MenuPorts |-> "up"]}]

\* Every command of the run did what it was asked to do.
Clean(e) ==
    /\ e.h = "started"
    /\ e.s = "stopped"
    /\ e.c \in {"reload_ok", "restart_ok"}
    /\ e.surv = {}
    /\ \A p \in MenuPorts : e.f[p] = "up"

\* systemctl start haproxy: the service comes up on the live configuration.
systemctl_start_haproxy(w, h) ==
    IF ~w.hapRunning /\ h = "started" /\ w.live.exists /\ Bindable(w)
    THEN [w EXCEPT !.hapRunning = TRUE, !.hapBound = CfgPorts(w.live)]
    ELSE w

\* ForwardDaemon.stop, run on SIGTERM: stop_all_forwards of the manager the
\* daemon started with.
daemon_stop(w, e) ==
    LET w1 == IF w.daemon = "haproxy"
              THEN haproxy_stop_all_forwards(w, e.s).w
              ELSE IF w.daemon = "socat"
              THEN socat_stop_all_forwards(w, e.surv, e.surv).w
              ELSE w
    IN  [w1 EXCEPT !.daemon = "off"]

\* ForwardDaemon.start.
daemon_start(w, e) ==
    LET m == get_forward_mode(w)
    IN  IF m = "none" THEN [w EXCEPT !.daemon = "none"]
        ELSE IF get_forward_manager(w) = "haproxy"
        THEN [haproxy_start_all_forwards(systemctl_start_haproxy(w, e.h),
                                         e.c).w EXCEPT !.daemon = "haproxy"]
        ELSE [socat_start_all_forwards(w, e.f).w EXCEPT !.daemon = "socat"]

\* systemctl start haproxy in haproxy mode, then systemctl restart of the
\* daemon unit.
restart_forward_daemon(w, e) ==
    LET w1 == IF get_forward_mode(w) = "haproxy"
              THEN systemctl_start_haproxy(w, e.h)
              ELSE w
    IN  daemon_start(daemon_stop(w1, e), e)

\* Choice 1 with one port: HAProxyManager(config).add_multiple_forwards, then
\* the daemon restart.
menu_add(w, t, p, e) ==
    IF get_forward_mode(w) = "none" THEN Res(w, FALSE, "disabled")
    ELSE LET cr == haproxy_create_forward(w, t, p, e.c)
         IN  Res(restart_forward_daemon(cr.w, e), cr.ok, cr.why)

\* Choice 2 with one port: HAProxyManager(config).remove_multiple_forwards,
\* then the daemon restart unless forwarding is disabled.
menu_remove(w, t, p, e) ==
    LET rr == haproxy_remove_forward(w, t, p, e.c)
    IN  IF get_forward_mode(w) = "none" THEN rr
        ELSE Res(restart_forward_daemon(rr.w, e), rr.ok, rr.why)

\* Choice 4.
menu_restart(w, e) ==
    IF get_forward_mode(w) = "none" THEN Res(w, FALSE, "disabled")
    ELSE Res(restart_forward_daemon(w, e), TRUE, "ok")

\* Choice 5: validate_and_reload of the mode's manager (a no-op for socat).
menu_validate(w, e) ==
    IF get_forward_mode(w) = "none" THEN Res(w, FALSE, "disabled")
    ELSE IF get_forward_manager(w) = "haproxy"
    THEN haproxy_validate_and_reload(w, e.c)
    ELSE Res(w, TRUE, "ok")

\* Choice 6, first part: stop the current mode's forwards, then the daemon.
switch_stop(w, e) ==
    IF get_forward_mode(w) = "haproxy"
    THEN daemon_stop(haproxy_stop_all_forwards(w, e.s).w, e)
    ELSE IF get_forward_mode(w) = "socat"
    THEN daemon_stop(socat_stop_all_forwards(w, e.surv, e.surv).w, e)
    ELSE w

\* Choice 6, last part: start the new mode if it is not "none" and the
\* operator says yes.
switch_start(w, new, confirm, e) ==
    IF new # "none" /\ confirm THEN restart_forward_daemon(w, e) ELSE w

\* The backend whose start_all_forwards a daemon restart invokes.
Started(w) ==
    IF get_forward_mode(w) = "none" THEN "none" ELSE get_forward_manager(w)

Idle == [pc |-> "idle", from |-> "none", to |-> "none", snap |-> {},
         clean |-> TRUE]

MenuOp(op, ok, started) ==
    [op |-> op, ok |-> ok, started |-> started, from |-> "none",
     to |-> "none", snap |-> {}, clean |-> FALSE]

InitSwitch ==
    /\ disk = [t \in Tunnels |-> <<>>]
    /\ mem = [t \in Tunnels |-> <<>>]
    /\ liveCfg = ExternalFile
    /\ backupCfg = AbsentFile
    /\ hapRunning = FALSE
    /\ hapBound = {}
    /\ socatProcs = {}
    /\ otherBound = {}
    /\ servers = [t \in Tunnels |-> {}]
    /\ backend = "menu"
    /\ mode = "none"
    /\ daemon = "none"
    /\ sw = Idle
    /\ last = MenuOp("none", TRUE, "none")
    /\ InitSessions
    /\ InitListeners
    /\ InitCommit
    /\ InitIdle

MenuAdd ==
    /\ sw.pc = "idle"
    /\ \E t \in Tunnels : \E p \in MenuTunnelPorts(t), e \in Envs(World, get_forward_mode(World) # "none", TRUE, TRUE) :
        \E res \in {menu_add(World, t, p, e)} :
            /\ Install(res.w)
            /\ last' = MenuOp("menu_add", res.ok,
                              IF res.why = "disabled" THEN "none"
                              ELSE Started(World))
    /\ UNCHANGED <<backend, sw, active_sessions, stats, conn,
                 fservers, serverOf, commitStep, stopStep, daemonProc,
                 copies>>

MenuRemove ==
    /\ sw.pc = "idle"
    /\ \E t \in Tunnels : \E p \in MenuTunnelPorts(t), e \in Envs(World, TRUE, TRUE, TRUE) :
        \E res \in {menu_remove(World, t, p, e)} :
            /\ Install(res.w)
            /\ last' = MenuOp("menu_remove", res.ok, Started(World))
    /\ UNCHANGED <<backend, sw, active_sessions, stats, conn,
                 fservers, serverOf, commitStep, stopStep, daemonProc,
                 copies>>

MenuRestart ==
    /\ sw.pc = "idle"
    /\ \E e \in Envs(World, FALSE, TRUE, TRUE) :
        \E res \in {menu_restart(World, e)} :
            /\ Install(res.w)
            /\ last' = MenuOp("menu_restart", res.ok, Started(World))
    /\ UNCHANGED <<backend, sw, active_sessions, stats, conn,
                 fservers, serverOf, commitStep, stopStep, daemonProc,
                 copies>>

MenuValidate ==
    /\ sw.pc = "idle"
    /\ \E e \in Envs(World, get_forward_mode(World) = "haproxy", FALSE, FALSE) :
        \E res \in {menu_validate(World, e)} :
            /\ Install(res.w)
            /\ last' = MenuOp("menu_validate", res.ok, "none")
    /\ UNCHANGED <<backend, sw, active_sessions, stats, conn,
                 fservers, serverOf, commitStep, stopStep, daemonProc,
                 copies>>

\* A handler that persists the new mode before it has stopped anything.
SwitchStop_persisting ==
    /\ sw.pc = "idle"
    /\ \E new \in Modes \ {mode}, e \in Envs(World, FALSE, TRUE, FALSE) :
        /\ Install(switch_stop(set_forward_mode(World, new), e))
        /\ sw' = [pc |-> "stopped", from |-> mode, to |-> new,
                  snap |-> BoundBy(World, mode), clean |-> Clean(e)]
    /\ last' = MenuOp("switch_stop", TRUE, "none")
    /\ UNCHANGED <<backend, active_sessions, stats, conn,
                 fservers, serverOf, commitStep, stopStep, daemonProc,
                 copies>>

SwitchStop ==
    /\ sw.pc = "idle"
    /\ \E new \in Modes \ {mode}, e \in Envs(World, FALSE, TRUE, FALSE) :
        /\ Install(switch_stop(World, e))
        /\ sw' = [pc |-> "stopped", from |-> mode, to |-> new,
                  snap |-> BoundBy(World, mode), clean |-> Clean(e)]
    /\ last' = MenuOp("switch_stop", TRUE, "none")
    /\ UNCHANGED <<backend, active_sessions, stats, conn,
                 fservers, serverOf, commitStep, stopStep, daemonProc,
                 copies>>

SwitchPersist ==
    /\ sw.pc = "stopped"
    /\ Install(set_forward_mode(World, sw.to))
    /\ sw' = [sw EXCEPT !.pc = "persisted"]
    /\ last' = MenuOp("switch_persist", TRUE, "none")
    /\ UNCHANGED <<backend, active_sessions, stats, conn,
                 fservers, serverOf, commitStep, stopStep, daemonProc,
                 copies>>

SwitchStart ==
    /\ sw.pc = "persisted"
    /\ \E confirm \in BOOLEAN, e \in Envs(World, FALSE, TRUE, TRUE) :
        /\ Install(switch_start(World, sw.to, confirm, e))
        /\ last' = [op |-> "switch_start", ok |-> TRUE,
                    started |-> IF sw.to # "none" /\ confirm
                                THEN Started(World) ELSE "none",
                    from |-> sw.from, to |-> sw.to, snap |-> sw.snap,
                    clean |-> sw.clean /\ confirm /\ Clean(e)]
    /\ sw' = Idle
    /\ UNCHANGED <<backend, active_sessions, stats, conn,
                 fservers, serverOf, commitStep, stopStep, daemonProc,
                 copies>>

NextSwitch ==
    \/ MenuAdd
    \/ MenuRemove
    \/ MenuRestart
    \/ MenuValidate
    \/ SwitchStop
    \/ SwitchPersist
    \/ SwitchStart

SpecSwitch == InitSwitch /\ [][NextSwitch]_vars

-----------------------------------------------------------------------------
(* add_multiple_forwards / remove_multiple_forwards, GlobalConfig *)

\* A port specification holds at most MaxTokens comma-separated tokens.
MaxTokens == 2

DigitChars == {ToString(d) : d \in 0..9}

DigitVal(c) == CHOOSE d \in 0..9 : ToString(d) = c

\* A token is the sequence of its characters.  int(s) raises ValueError
\* unless s is a non-empty string of digits.
IsInt(s) == Len(s) > 0 /\ \A i \in 1..Len(s) : s[i] \in DigitChars

RECURSIVE IntOf(_)
IntOf(s) ==
    IF Len(s) = 0 THEN 0
    ELSE 10 * IntOf(SubSeq(s, 1, Len(s) - 1)) + DigitVal(s[Len(s)])

\* s.split('-')
RECURSIVE SplitDash(_)
SplitDash(s) ==
    IF \A i \in 1..Len(s) : s[i] # "-" THEN <<s>>
    ELSE LET k == CHOOSE i \in 1..Len(s) :
                      s[i] = "-" /\ \A j \in 1..(i - 1) : s[j] # "-"
         IN  <<SubSeq(s, 1, k - 1)>> \o SplitDash(SubSeq(s, k + 1, Len(s)))

\* list(range(a, b + 1))
Interval(a, b) == [i \in 1..(b - a + 1) |-> a + i - 1]

PortToken(p) == <<ToString(p)>>

RangeToken(a, b) == <<ToString(a), "-", ToString(b)>>

\* What the operator types between two commas: a port, a range "a-b" with
\* a <= b, or something that is no number.
Tokens ==
    {PortToken(p) : p \in Ports}
        \cup {RangeToken(r[1], r[2]) : r \in {q \in Ports \X Ports : q[1] <= q[2]}}
        \cup {<<"x">>}

\* ports_str after split(',') and strip().
PortSpecs == UNION {[1..n -> Tokens] : n \in 1..MaxTokens}

\* The specifications typed for a tunnel: any for the first tunnel, the
\* highest port alone for the second.
TunnelPortSpecs(t) ==
    IF t = "t1" THEN PortSpecs ELSE {<<PortToken(MaxPort)>>}

Parsed(ok, ports) == [ok |-> ok, ports |-> ports]

\* HAProxyManager and ForwardManager: port = int(port_str).
int_token(tok) ==
    IF IsInt(tok) THEN Parsed(TRUE, <<IntOf(tok)>>) ELSE Parsed(FALSE, <<>>)

\* SocatManager: a part with a '-' is start, end = map(int, part.split('-')),
\* any other part is int(part).
socat_token(tok) ==
    IF "-" \in Range(tok)
    THEN LET parts == SplitDash(tok)
         IN  IF Len(parts) = 2 /\ IsInt(parts[1]) /\ IsInt(parts[2])
             THEN Parsed(TRUE, Interval(IntOf(parts[1]), IntOf(parts[2])))
             ELSE Parsed(FALSE, <<>>)
    ELSE int_token(tok)

\* One line of the returned message: the token it is about (its position in
\* the specification), the port, and whether the port was applied.
Entry(tok, port, ok) == [tok |-> tok, port |-> port, ok |-> ok]

BRes(w, ok, entries) == [w |-> w, ok |-> ok, entries |-> entries]

\* The single-port calls of a batch, with every external command succeeding.
batch_create(w, be, t, p) ==
    IF be = "haproxy" THEN haproxy_create_forward(w, t, p, "reload_ok")
    ELSE IF be = "socat" THEN socat_create_forward(w, t, p, "up")
    ELSE relay_create_forward(w, t, p)

batch_remove(w, be, t, p) ==
    IF be = "haproxy" THEN haproxy_remove_forward(w, t, p, "reload_ok")
    ELSE IF be = "socat" THEN socat_remove_forward(w, t, p, "killed")
    ELSE relay_remove_forward(w, t, p)

batch_single(w, op, be, t, p) ==
    IF op = "add_multiple" THEN batch_create(w, be, t, p)
    ELSE batch_remove(w, be, t, p)

\* The loop of HAProxyManager and ForwardManager: each token is converted and
\* handled in its own try block, and gets its own line.
RECURSIVE PerToken(_, _, _, _, _, _)
PerToken(acc, op, be, t, toks, i) ==
    IF i > Len(toks) THEN acc
    ELSE LET pr == int_token(toks[i])
         IN  IF ~pr.ok
             THEN PerToken(BRes(acc.w, TRUE,
                                Append(acc.entries, Entry(i, 0, FALSE))),
                           op, be, t, toks, i + 1)
             ELSE LET r == batch_single(acc.w, op, be, t, pr.ports[1])
                  IN  PerToken(BRes(r.w, TRUE,
                                    Append(acc.entries,
                                           Entry(i, pr.ports[1], r.ok))),
                               op, be, t, toks, i + 1)

haproxy_add_multiple_forwards(w, t, toks) ==
    PerToken(BRes(w, TRUE, <<>>), "add_multiple", "haproxy", t, toks, 1)

haproxy_remove_multiple_forwards(w, t, toks) ==
    PerToken(BRes(w, TRUE, <<>>), "remove_multiple", "haproxy", t, toks, 1)

relay_add_multiple_forwards(w, t, toks) ==
    PerToken(BRes(w, TRUE, <<>>), "add_multiple", "relay", t, toks, 1)

relay_remove_multiple_forwards(w, t, toks) ==
    PerToken(BRes(w, TRUE, <<>>), "remove_multiple", "relay", t, toks, 1)

\* SocatManager converts the whole specification first, in one try block:
\* the ports of every token, each with the position of its token.
RECURSIVE socat_ports(_, _)
socat_ports(toks, i) ==
    IF i > Len(toks) THEN <<>>
    ELSE LET ps == socat_token(toks[i]).ports
         IN  [k \in 1..Len(ps) |-> [tok |-> i, port |-> ps[k]]]
                \o socat_ports(toks, i + 1)

\* The first token whose conversion raises ValueError, 0 if there is none.
FirstInvalid(toks) ==
    IF \A i \in 1..Len(toks) : socat_token(toks[i]).ok THEN 0
    ELSE CHOOSE i \in 1..Len(toks) :
            /\ ~socat_token(toks[i]).ok
            /\ \A j \in 1..(i - 1) : socat_token(toks[j]).ok

RECURSIVE SocatAddEach(_, _, _, _)
SocatAddEach(acc, t, items, i) ==
    IF i > Len(items) THEN acc
    ELSE LET r == batch_create(acc.w, "socat", t, items[i].port)
         IN  SocatAddEach(BRes(r.w, TRUE,
                               Append(acc.entries,
                                      Entry(items[i].tok, items[i].port, r.ok))),
                          t, items, i + 1)

\* "Invalid port format" is the whole answer when a token does not convert;
\* the line is counted as the entry of that token.
socat_add_multiple_forwards(w, t, toks) ==
    IF FirstInvalid(toks) # 0
    THEN BRes(w, FALSE, <<Entry(FirstInvalid(toks), 0, FALSE)>>)
    ELSE SocatAddEach(BRes(w, TRUE, <<>>), t, socat_ports(toks, 1), 1)

\* remove_forward is called, and its message kept, only for a port that is
\* in the forwarded list.
RECURSIVE SocatRemoveEach(_, _, _, _)
SocatRemoveEach(acc, t, items, i) ==
    IF i > Len(items) THEN acc
    ELSE IF items[i].port \notin Range(acc.w.mem[t])
    THEN SocatRemoveEach(acc, t, items, i + 1)
    ELSE LET r == batch_remove(acc.w, "socat", t, items[i].port)
         IN  SocatRemoveEach(BRes(r.w, TRUE,
                                  Append(acc.entries,
                                         Entry(items[i].tok, items[i].port,
                                               r.ok))),
                             t, items, i + 1)

socat_remove_multiple_forwards(w, t, toks) ==
    IF FirstInvalid(toks) # 0
    THEN BRes(w, FALSE, <<Entry(FirstInvalid(toks), 0, FALSE)>>)
    ELSE SocatRemoveEach(BRes(w, TRUE, <<>>), t, socat_ports(toks, 1), 1)

\* The values a caller may hand to the forward_mode setter.
ModeValues == {"none", "relay", "haproxy", "socat", "direct"}

\* GlobalConfig.forward_mode, getter and setter.
forward_mode_get(w) == IF w.mode \notin Modes THEN "none" ELSE w.mode

forward_mode_set(w, value) ==
    IF value \notin Modes THEN Res(w, FALSE, "ValueError")
    ELSE Res([w EXCEPT !.mode = value], TRUE, "ok")

\* The most recent batch call: before is the tunnel's forwarded set when the
\* call was made.
BatchOp(op, be, t, toks, res) ==
    [op |-> op, be |-> be, t |-> t, tokens |-> toks, ok |-> res.ok,
     entries |-> res.entries, before |-> Range(mem[t])]

InitBatch ==
    /\ disk = [t \in Tunnels |-> <<>>]
    /\ mem = [t \in Tunnels |-> <<>>]
    /\ liveCfg = ExternalFile
    /\ backupCfg = AbsentFile
    /\ hapRunning = FALSE
    /\ hapBound = {}
    /\ socatProcs = {}
    /\ otherBound = {}
    /\ servers = [t \in Tunnels |-> {}]
    /\ backend \in Backends
    /\ mode = "none"
    /\ daemon = "off"
    /\ sw = [pc |-> "idle"]
    /\ last = NoOp
    /\ InitSessions
    /\ InitListeners
    /\ InitCommit
    /\ InitIdle

HapAddMultiple ==
    /\ backend = "haproxy"
    /\ \E t \in Tunnels : \E toks \in TunnelPortSpecs(t) :
        \E res \in {haproxy_add_multiple_forwards(World, t, toks)} :
            /\ Install(res.w)
            /\ last' = BatchOp("add_multiple", "haproxy", t, toks, res)
    /\ Frame

HapRemoveMultiple ==
    /\ backend = "haproxy"
    /\ \E t \in Tunnels : \E toks \in TunnelPortSpecs(t) :
        \E res \in {haproxy_remove_multiple_forwards(World, t, toks)} :
            /\ Install(res.w)
            /\ last' = BatchOp("remove_multiple", "haproxy", t, toks, res)
    /\ Frame

SocatAddMultiple ==
    /\ backend = "socat"
    /\ \E t \in Tunnels : \E toks \in TunnelPortSpecs(t) :
        \E res \in {socat_add_multiple_forwards(World, t, toks)} :
            /\ Install(res.w)
            /\ last' = BatchOp("add_multiple", "socat", t, toks, res)
    /\ Frame

SocatRemoveMultiple ==
    /\ backend = "socat"
    /\ \E t \in Tunnels : \E toks \in TunnelPortSpecs(t) :
        \E res \in {socat_remove_multiple_forwards(World, t, toks)} :
            /\ Install(res.w)
            /\ last' = BatchOp("remove_multiple", "socat", t, toks, res)
    /\ Frame

RelayAddMultiple ==
    /\ backend = "relay"
    /\ \E t \in Tunnels : \E toks \in TunnelPortSpecs(t) :
        \E res \in {relay_add_multiple_forwards(World, t, toks)} :
            /\ Install(res.w)
            /\ last' = BatchOp("add_multiple", "relay", t, toks, res)
    /\ Frame

RelayRemoveMultiple ==
    /\ backend = "relay"
    /\ \E t \in Tunnels : \E toks \in TunnelPortSpecs(t) :
        \E res \in {relay_remove_multiple_forwards(World, t, toks)} :
            /\ Install(res.w)
            /\ last' = BatchOp("remove_multiple", "relay", t, toks, res)
    /\ Frame

SetForwardMode ==
    /\ \E value \in ModeValues :
        \E res \in {forward_mode_set(World, value)} :
            /\ Install(res.w)
            /\ last' = [op |-> "set_mode", value |-> value, ok |-> res.ok,
                        prev |-> mode]
    /\ Frame

NextBatch ==
    \/ HapAddMultiple
    \/ HapRemoveMultiple
    \/ SocatAddMultiple
    \/ SocatRemoveMultiple
    \/ RelayAddMultiple
    \/ RelayRemoveMultiple
    \/ SetForwardMode
    \/ OtherBind
    \/ OtherRelease

SpecBatch == InitBatch /\ [][NextBatch]_vars

-----------------------------------------------------------------------------
(* One relay listener serving its connections *)

InitRelay ==
    /\ disk = [t \in Tunnels |-> <<>>]
    /\ mem = [t \in Tunnels |-> <<>>]
    /\ liveCfg = ExternalFile
    /\ backupCfg = AbsentFile
    /\ hapRunning = FALSE
    /\ hapBound = {}
    /\ socatProcs = {}
    /\ otherBound = {}
    /\ servers = [t \in Tunnels |-> {}]
    /\ backend = "relay"
    /\ mode = "none"
    /\ daemon = "off"
    /\ sw = [pc |-> "idle"]
    /\ last = NoOp
    /\ InitSessions
    /\ InitListeners
    /\ InitCommit
    /\ InitIdle

ManagerFrame ==
    UNCHANGED <<disk, mem, liveCfg, backupCfg, hapRunning, hapBound,
                socatProcs, otherBound, servers, backend, mode, daemon, sw,
                last, fservers, serverOf, commitStep, stopStep,
                daemonProc, copies>>

ClientAccepted == (\E c \in Conns : Accept(c)) /\ ManagerFrame

ConnectReturns ==
    (\E c \in Conns, o \in ConnectOutcomes : Connect(c, o)) /\ ManagerFrame

FailCloseReturns ==
    (\E c \in Conns, r \in {"clean", "error"} : FailClosed(c, r))
        /\ ManagerFrame

RelayLoopEnds ==
    (\E c \in Conns, d \in {"fwd", "bwd"} : RelayEnd(c, d)) /\ ManagerFrame

RelayCloseReturns ==
    (\E c \in Conns, d \in {"fwd", "bwd"}, r \in {"clean", "error"} :
        RelayClosed(c, d, r)) /\ ManagerFrame

GatherReturns == (\E c \in Conns : Gather(c)) /\ ManagerFrame

FinalCloseReturns ==
    (\E c \in Conns, r \in {"clean", "error"} : FinalClosed(c, r))
        /\ ManagerFrame

NextRelay ==
    \/ ClientAccepted
    \/ ConnectReturns
    \/ FailCloseReturns
    \/ RelayLoopEnds
    \/ RelayCloseReturns
    \/ GatherReturns
    \/ FinalCloseReturns

SpecRelay == InitRelay /\ [][NextRelay]_vars

\* Every await of a handler or of a relay task returns: open_connection is
\* given 10 s, reader.read() 300 s, and wait_closed() follows a close().
\* Nothing says that a client ever connects.
SpecRelayFair ==
    SpecRelay /\ WF_vars(ConnectReturns \/ FailCloseReturns \/ RelayLoopEnds
                            \/ RelayCloseReturns \/ GatherReturns
                            \/ FinalCloseReturns)

\* The same listener with the data its relay tasks carry; here every
\* wait_closed() returns normally.
FailClosesCleanly == (\E c \in Conns : FailClosed(c, "clean")) /\ ManagerFrame

RelayClosesCleanly ==
    (\E c \in Conns, d \in {"fwd", "bwd"} : RelayClosed(c, d, "clean"))
        /\ ManagerFrame

FinalClosesCleanly ==
    (\E c \in Conns : FinalClosed(c, "clean")) /\ ManagerFrame

RelayReads ==
    (\E c \in Conns, d \in {"fwd", "bwd"}, n \in 1..MaxBytes,
        w \in {"ok", "error"} : RelayData(c, d, n, w)) /\ ManagerFrame

NextBytes ==
    \/ ClientAccepted
    \/ ConnectReturns
    \/ FailClosesCleanly
    \/ RelayReads
    \/ RelayLoopEnds
    \/ RelayClosesCleanly
    \/ GatherReturns
    \/ FinalClosesCleanly

SpecBytes == InitRelay /\ [][NextBytes]_vars

-----------------------------------------------------------------------------
(* The relay manager of one tunnel and its listeners *)

\* The step made last (start_all_forwards, stop_all_forwards, a start task,
\* or any other); quiet: stop_all_forwards has returned and neither
\* create_forward nor start_all_forwards was called since; ok: whether the
\* bind of the start task that ran last succeeded.
ListenOp(op, quiet) == [op |-> op, quiet |-> quiet, ok |-> TRUE]

TaskOp(quiet, ok) == [op |-> "task", quiet |-> quiet, ok |-> ok]

InitListen ==
    /\ disk = [t \in Tunnels |-> <<>>]
    /\ mem = [t \in Tunnels |-> <<>>]
    /\ liveCfg = ExternalFile
    /\ backupCfg = AbsentFile
    /\ hapRunning = FALSE
    /\ hapBound = {}
    /\ socatProcs = {}
    /\ otherBound = {}
    /\ servers = [t \in Tunnels |-> {}]
    /\ backend = "relay"
    /\ mode = "none"
    /\ daemon = "off"
    /\ sw = [pc |-> "idle"]
    /\ last = ListenOp("none", FALSE)
    /\ InitSessions
    /\ InitListeners
    /\ InitCommit
    /\ InitIdle

ListenFrame ==
    UNCHANGED <<liveCfg, backupCfg, hapRunning, hapBound, socatProcs,
                backend, mode, daemon, sw, active_sessions, stats, conn,
                commitStep, stopStep, daemonProc, copies>>

InstallListeners(l) == fservers' = l.objs /\ serverOf' = l.of

InstallStore(w) ==
    /\ disk' = w.disk /\ mem' = w.mem /\ servers' = w.servers
    /\ otherBound' = w.other

ListenCreate ==
    /\ \E p \in Ports :
        /\ FreeIds(Listeners) # {}
        /\ \E res \in {relay_create_forward(World, "t1", p)} :
            /\ res.ok
            /\ InstallStore(res.w)
            /\ InstallListeners(listen_create(Listeners, p))
    /\ last' = ListenOp("other", FALSE)
    /\ ListenFrame

ListenRemove ==
    /\ \E p \in Ports :
        \E res \in {relay_remove_forward(World, "t1", p)} :
            /\ res.ok
            /\ InstallStore(res.w)
            /\ InstallListeners(listen_remove(Listeners, p))
    /\ last' = ListenOp("other", last.quiet)
    /\ ListenFrame

ListenStartAll ==
    /\ mem["t1"] # <<>>
    /\ Cardinality(FreeIds(Listeners))
            >= Cardinality({p \in Range(mem["t1"]) : serverOf[p] = 0})
    /\ \E l \in {listen_start_all(Listeners, mem["t1"])} :
        /\ Sum([i \in ServerIds |-> l.objs[i].tasks], ServerIds) <= MaxTasks
        /\ InstallListeners(l)
        /\ servers' = [servers EXCEPT !["t1"] = {p \in Ports : l.of[p] # 0}]
    /\ last' = ListenOp("start_all", FALSE)
    /\ UNCHANGED <<disk, mem, otherBound>>
    /\ ListenFrame

ListenStopAll ==
    /\ InstallListeners(listen_stop_all(Listeners))
    /\ last' = ListenOp("stop_all", TRUE)
    /\ UNCHANGED <<disk, mem, otherBound, servers>>
    /\ ListenFrame

\* The event loop runs one waiting start task.
StartTaskRuns ==
    /\ \E i \in ServerIds :
        /\ fservers[i].tasks > 0
        /\ \E free \in {fservers[i].port \notin
                            (ListenerPorts(fservers) \cup otherBound)} :
            /\ InstallListeners(server_start(Listeners, i, free))
            /\ last' = TaskOp(last.quiet, free)
    /\ UNCHANGED <<disk, mem, otherBound, servers>>
    /\ ListenFrame

\* The program ends and is started again: the sockets and tasks of the old
\* process are gone, the new manager's dictionary is empty.
ListenRestart ==
    /\ \E i \in ServerIds : fservers[i].port # 0
    /\ fservers' = [i \in ServerIds |-> NoServer]
    /\ serverOf' = [p \in Ports |-> 0]
    /\ servers' = relay_new(World).servers
    /\ last' = ListenOp("other", FALSE)
    /\ UNCHANGED <<disk, mem, otherBound>>
    /\ ListenFrame

\* An unrelated process binds a forwarded port that is free, or releases one
\* it holds.
ListenOtherBind ==
    /\ \E p \in Range(mem["t1"]) \ (ListenerPorts(fservers) \cup otherBound) :
        /\ Cardinality(otherBound) < MaxOther
        /\ otherBound' = otherBound \cup {p}
    /\ last' = ListenOp("other", last.quiet)
    /\ UNCHANGED <<disk, mem, servers, fservers, serverOf>>
    /\ ListenFrame

ListenOtherRelease ==
    /\ \E p \in otherBound : otherBound' = otherBound \ {p}
    /\ last' = ListenOp("other", last.quiet)
    /\ UNCHANGED <<disk, mem, servers, fservers, serverOf>>
    /\ ListenFrame

NextListen ==
    \/ ListenCreate
    \/ ListenRemove
    \/ ListenStartAll
    \/ ListenStopAll
    \/ StartTaskRuns
    \/ ListenRestart
    \/ ListenOtherBind
    \/ ListenOtherRelease

SpecListen == InitListen /\ [][NextListen]_vars

-----------------------------------------------------------------------------
(* haproxy_manager.py: a commit of the configuration, step by step *)

InitSteps ==
    /\ disk = [t \in Tunnels |-> <<>>]
    /\ mem = [t \in Tunnels |-> <<>>]
    /\ liveCfg \in {AbsentFile, ExternalFile}
    /\ backupCfg = AbsentFile
    /\ hapRunning \in BOOLEAN
    /\ hapBound = {}
    /\ socatProcs = {}
    /\ otherBound = {}
    /\ servers = [t \in Tunnels |-> {}]
    /\ backend = "haproxy"
    /\ mode = "haproxy"
    /\ daemon = "off"
    /\ sw = [pc |-> "idle"]
    /\ last = NoOp
    /\ InitSessions
    /\ InitListeners
    /\ InitCommit
    /\ InitIdle

StepFrame ==
    UNCHANGED <<socatProcs, otherBound, servers, backend, mode, daemon, sw,
                last, active_sessions, stats, conn, fservers, serverOf,
                stopStep, daemonProc, copies>>

\* create_forward, remove_forward or validate_and_reload up to the call of
\* _write_config_file: the store is changed and the candidate generated.
CommitCall ==
    /\ commitStep.pc = "idle"
    /\ \E op \in {"create", "remove", "validate"}, p \in Ports :
        /\ op = "create" => p \notin Range(mem["t1"])
                                /\ ~is_port_listening(World, p)
        /\ op = "remove" => p \in Range(mem["t1"])
        /\ op = "validate" => p = 1
        /\ \E w \in {IF op = "create" THEN add_port(World, "t1", p)
                     ELSE IF op = "remove" THEN remove_port(World, "t1", p)
                     ELSE World} :
            disk' = w.disk /\ mem' = w.mem
        /\ commitStep' = [IdleCommit EXCEPT !.pc = "write", !.op = op, !.p = p]
    /\ UNCHANGED <<liveCfg, backupCfg, hapRunning, hapBound>>
    /\ StepFrame

\* A writer that writes the candidate over the live file.
CommitWriteTmp_inplace ==
    /\ commitStep.pc = "write"
    /\ \E o \in {"ok", "error"} :
        IF o = "ok"
        THEN /\ backupCfg' = IF liveCfg.exists /\ ~backupCfg.exists
                             THEN liveCfg ELSE backupCfg
             /\ liveCfg' = generate_haproxy_config(World)
             /\ commitStep' = [commitStep EXCEPT
                    !.pc = "validate",
                    !.tmp = generate_haproxy_config(World),
                    !.hist = Append(@, "write_tmp")]
        ELSE /\ commitStep' = [commitStep EXCEPT !.pc = "failed"]
             /\ UNCHANGED <<backupCfg, liveCfg>>
    /\ UNCHANGED <<disk, mem, hapRunning, hapBound>>
    /\ StepFrame

\* _write_config_file up to the validator: the backup is taken if it is due
\* and the candidate is written to haproxy.cfg.tmp, or one of the two raises.
CommitWriteTmp ==
    /\ commitStep.pc = "write"
    /\ \E o \in {"ok", "error"} :
        IF o = "ok"
        THEN /\ backupCfg' = IF liveCfg.exists /\ ~backupCfg.exists
                             THEN liveCfg ELSE backupCfg
             /\ commitStep' = [commitStep EXCEPT
                    !.pc = "validate",
                    !.tmp = generate_haproxy_config(World),
                    !.hist = Append(@, "write_tmp")]
        ELSE /\ commitStep' = [commitStep EXCEPT !.pc = "failed"]
             /\ UNCHANGED backupCfg
    /\ UNCHANGED <<disk, mem, liveCfg, hapRunning, hapBound>>
    /\ StepFrame

\* haproxy -c -f haproxy.cfg.tmp accepts the file, rejects it (the temporary
\* file is unlinked), or cannot be run.
CommitValidate ==
    /\ commitStep.pc = "validate"
    /\ \E o \in {"ok", "rejected", "error"} :
        commitStep' = [commitStep EXCEPT
            !.pc = IF o = "ok" THEN "replace" ELSE "failed",
            !.tmp = IF o = "rejected" THEN AbsentFile ELSE @,
            !.hist = Append(@, IF o = "ok" THEN "validate_ok"
                               ELSE "validate_failed")]
    /\ UNCHANGED <<disk, mem, liveCfg, backupCfg, hapRunning, hapBound>>
    /\ StepFrame

\* temp_file.replace(HAPROXY_CONFIG_FILE); _write_config_file returns True
\* and the caller goes on to _reload_haproxy.
CommitReplace ==
    /\ commitStep.pc = "replace"
    /\ liveCfg' = commitStep.tmp
    /\ commitStep' = [commitStep EXCEPT !.pc = "reload", !.tmp = AbsentFile,
                                !.hist = Append(@, "replace")]
    /\ UNCHANGED <<disk, mem, backupCfg, hapRunning, hapBound>>
    /\ StepFrame

\* systemctl reload haproxy succeeds (haproxy runs and can bind its ports),
\* fails, or times out.
CommitReload ==
    /\ commitStep.pc = "reload"
    /\ \E o \in {"ok", "failed", "timeout"} :
        /\ o = "ok" => hapRunning /\ Bindable(World)
        /\ commitStep' = [commitStep EXCEPT
                !.pc = IF o = "ok" THEN "done"
                       ELSE IF o = "failed" THEN "restart" ELSE "failed",
                !.hist = Append(@, IF o = "ok" THEN "reload_ok"
                                   ELSE "reload_failed")]
        /\ hapBound' = IF o = "ok" THEN CfgPorts(liveCfg) ELSE hapBound
    /\ UNCHANGED <<disk, mem, liveCfg, backupCfg, hapRunning>>
    /\ StepFrame

\* systemctl restart haproxy succeeds or fails.
CommitRestart ==
    /\ commitStep.pc = "restart"
    /\ \E o \in {"ok", "failed"} :
        /\ o = "ok" => Bindable(World)
        /\ commitStep' = [commitStep EXCEPT
                !.pc = IF o = "ok" THEN "done" ELSE "failed",
                !.hist = Append(@, IF o = "ok" THEN "restart_ok"
                                   ELSE "restart_failed")]
        /\ hapRunning' = (o = "ok")
        /\ hapBound' = IF o = "ok" THEN CfgPorts(liveCfg) ELSE {}
    /\ UNCHANGED <<disk, mem, liveCfg, backupCfg>>
    /\ StepFrame

\* The call returns; create_forward and remove_forward undo their change of
\* the store after a failure.
CommitReturn ==
    /\ commitStep.pc \in {"done", "failed"}
    /\ \E w \in {IF commitStep.pc = "done" THEN World
                 ELSE IF commitStep.op = "create"
                 THEN remove_port(World, "t1", commitStep.p)
                 ELSE IF commitStep.op = "remove"
                 THEN add_port(World, "t1", commitStep.p)
                 ELSE World} :
        disk' = w.disk /\ mem' = w.mem
    /\ commitStep' = [commitStep EXCEPT !.pc = "idle"]
    /\ UNCHANGED <<liveCfg, backupCfg, hapRunning, hapBound>>
    /\ StepFrame

NextSteps ==
    \/ CommitCall
    \/ CommitWriteTmp
    \/ CommitValidate
    \/ CommitReplace
    \/ CommitReload
    \/ CommitRestart
    \/ CommitReturn

SpecSteps == InitSteps /\ [][NextSteps]_vars

-----------------------------------------------------------------------------
(* socat_manager.py: stop_all_forwards, poll by poll *)

\* The polls of the grace window.
wait_steps == 5

InitStop ==
    /\ disk = [t \in Tunnels |-> <<>>]
    /\ mem = [t \in Tunnels |-> <<>>]
    /\ liveCfg = ExternalFile
    /\ backupCfg = AbsentFile
    /\ hapRunning = FALSE
    /\ hapBound = {}
    /\ socatProcs \in SUBSET Ports
    /\ otherBound = {}
    /\ servers = [t \in Tunnels |-> {}]
    /\ backend = "socat"
    /\ mode = "socat"
    /\ daemon = "off"
    /\ sw = [pc |-> "idle"]
    /\ last = NoOp
    /\ InitSessions
    /\ InitListeners
    /\ InitCommit
    /\ InitIdle

StopFrame ==
    UNCHANGED <<disk, mem, liveCfg, backupCfg, hapRunning, hapBound,
                otherBound, servers, backend, mode, daemon, sw, last,
                active_sessions, stats, conn, fservers, serverOf,
                commitStep, daemonProc, copies>>

\* A helper is launched for a free port, by the daemon or from a menu; nothing
\* keeps that from happening while a stop is under way.
HelperLaunched ==
    /\ \E p \in Ports \ socatProcs :
        socatProcs' = start_forward(World, p, "up").w.socat
    /\ UNCHANGED stopStep
    /\ StopFrame

\* A helper that was sent a signal exits; nothing says when, or whether.
HelperExits ==
    /\ stopStep.pc \in {"polling", "verify"}
    /\ \E p \in socatProcs : socatProcs' = socatProcs \ {p}
    /\ UNCHANGED stopStep
    /\ StopFrame

\* stop_all_forwards is called: pkill -f 'socat.*TCP-LISTEN' goes to every
\* helper.
StopCall ==
    /\ stopStep.pc = "idle"
    /\ stopStep' = [IdleStop EXCEPT !.pc = "polling"]
    /\ UNCHANGED socatProcs
    /\ StopFrame

\* A loop that polls until no helper is left.
StopPoll_unbounded ==
    /\ stopStep.pc = "polling"
    /\ stopStep' = IF socatProcs = {}
                   THEN [stopStep EXCEPT !.pc = "returned", !.why = "ok"]
                   ELSE stopStep
    /\ UNCHANGED socatProcs
    /\ StopFrame

\* One turn of the loop: sleep 0.2 s, list the helpers, return if none is
\* left.
StopPoll ==
    /\ stopStep.pc = "polling"
    /\ stopStep.polls < wait_steps
    /\ stopStep' = IF socatProcs = {}
                   THEN [stopStep EXCEPT !.polls = @ + 1,
                                         !.pc = "returned", !.why = "ok"]
                   ELSE [stopStep EXCEPT !.polls = @ + 1]
    /\ UNCHANGED socatProcs
    /\ StopFrame

\* After the loop the helpers are listed again and those still running are
\* sent kill -9 by process id; with none running the call returns.
StopForce ==
    /\ stopStep.pc = "polling"
    /\ stopStep.polls = wait_steps
    /\ stopStep' = IF socatProcs = {}
                   THEN [stopStep EXCEPT !.pc = "returned", !.why = "forced"]
                   ELSE [stopStep EXCEPT !.pc = "verify",
                                         !.killed = socatProcs]
    /\ UNCHANGED socatProcs
    /\ StopFrame

\* The final verification half a second after kill -9.
StopVerify ==
    /\ stopStep.pc = "verify"
    /\ stopStep' = [stopStep EXCEPT
            !.pc = "returned",
            !.why = IF socatProcs = {} THEN "forced" ELSE "stuck"]
    /\ UNCHANGED socatProcs
    /\ StopFrame

\* The caller has the result.
StopReturn ==
    /\ stopStep.pc = "returned"
    /\ stopStep' = [stopStep EXCEPT !.pc = "idle"]
    /\ UNCHANGED socatProcs
    /\ StopFrame

NextStop ==
    \/ HelperLaunched
    \/ HelperExits
    \/ StopCall
    \/ StopPoll
    \/ StopForce
    \/ StopVerify
    \/ StopReturn

SpecStop == InitStop /\ [][NextStop]_vars

\* Every sleep ends and every command returns (run_command gives each ten
\* seconds), so a stop_all_forwards that was called keeps making steps.
SpecStopFair ==
    SpecStop /\ WF_vars(StopPoll \/ StopForce \/ StopVerify \/ StopReturn)

-----------------------------------------------------------------------------
(* Two manager instances, each with its own TunnelConfig of tunnel t1 *)

InitCopies ==
    /\ disk = [t \in Tunnels |-> <<>>]
    /\ mem = [t \in Tunnels |-> <<>>]
    /\ liveCfg = ExternalFile
    /\ backupCfg = AbsentFile
    /\ hapRunning = FALSE
    /\ hapBound = {}
    /\ socatProcs = {}
    /\ otherBound = {}
    /\ servers = [t \in Tunnels |-> {}]
    /\ backend = "haproxy"
    /\ mode = "haproxy"
    /\ daemon = "off"
    /\ sw = [pc |-> "idle"]
    /\ last = NoOp
    /\ InitSessions
    /\ InitListeners
    /\ InitCommit
    /\ InitIdle

CopiesFrame ==
    UNCHANGED <<backend, sw, active_sessions, stats, conn, fservers,
                serverOf, commitStep, stopStep, daemonProc>>

CopyOp(op, m, p, ok) == [op |-> op, m |-> m, p |-> p, ok |-> ok]

\* The world as instance m sees it: the files, and its own loaded list.
WorldOf(m) == [World EXCEPT !.mem["t1"] = copies[m]]

\* What a call of instance m has done: the files and processes it changed,
\* and its own list.
InstallOf(m, w) ==
    /\ Install([w EXCEPT !.mem = mem])
    /\ copies' = [copies EXCEPT ![m] = w.mem["t1"]]

\* A new TunnelConfig takes the place of instance m's: _load reads the file.
InstanceLoads ==
    /\ \E m \in Managers :
        /\ copies' = [copies EXCEPT ![m] = disk["t1"]]
        /\ last' = CopyOp("load", m, 0, TRUE)
    /\ UNCHANGED <<disk, mem, liveCfg, backupCfg, hapRunning, hapBound,
                   socatProcs, otherBound, servers, mode, daemon>>
    /\ CopiesFrame

\* HAProxyManager(config).create_forward(p) of instance m.
InstanceCreates ==
    /\ \E m \in Managers, p \in Ports, c \in CommitOutcomes :
        \E res \in {haproxy_create_forward(WorldOf(m), "t1", p, c)} :
            /\ InstallOf(m, res.w)
            /\ last' = CopyOp("create", m, p, res.ok)
    /\ CopiesFrame

\* HAProxyManager(config).remove_forward(p) of instance m.
InstanceRemoves ==
    /\ \E m \in Managers, p \in Ports, c \in CommitOutcomes :
        \E res \in {haproxy_remove_forward(WorldOf(m), "t1", p, c)} :
            /\ InstallOf(m, res.w)
            /\ last' = CopyOp("remove", m, p, res.ok)
    /\ CopiesFrame

NextCopies ==
    \/ InstanceLoads
    \/ InstanceCreates
    \/ InstanceRemoves

SpecCopies == InitCopies /\ [][NextCopies]_vars

-----------------------------------------------------------------------------
(* forward_daemon.py: the daemon process, statement by statement *)

\* At most MaxSignals termination signals reach one daemon process.
MaxSignals == 2

InitDaemon ==
    /\ disk = [t \in Tunnels |-> <<>>]
    /\ mem = [t \in Tunnels |-> <<>>]
    /\ liveCfg = ExternalFile
    /\ backupCfg = AbsentFile
    /\ hapRunning = FALSE
    /\ hapBound = {}
    /\ socatProcs = {}
    /\ otherBound = {}
    /\ servers = [t \in Tunnels |-> {}]
    /\ backend = "none"
    /\ mode = "none"
    /\ daemon = "off"
    /\ sw = [pc |-> "idle"]
    /\ last = NoOp
    /\ InitSessions
    /\ InitListeners
    /\ InitCommit
    /\ InitIdle

DaemonFrame ==
    UNCHANGED <<backend, sw, last, active_sessions, stats, conn, fservers,
                serverOf, commitStep, stopStep, copies>>

\* While no daemon runs the operator picks a mode in the menu.
OperatorSetsMode ==
    /\ daemonProc.pc = "down"
    /\ \E m \in Modes : Install(set_forward_mode(World, m))
    /\ UNCHANGED daemonProc
    /\ DaemonFrame

\* While no daemon runs a first rule is stored for the first tunnel.
OperatorStoresRule ==
    /\ daemonProc.pc = "down"
    /\ disk["t1"] = <<>>
    /\ \E p \in Ports : Install(add_port(World, "t1", p))
    /\ UNCHANGED daemonProc
    /\ DaemonFrame

\* main() has installed handle_signal for SIGTERM and SIGINT; start() reads
\* the mode.
DaemonReadsMode ==
    /\ daemonProc.pc = "down"
    /\ daemonProc' = [daemonProc EXCEPT !.pc = "read",
                                        !.mode = get_forward_mode(World)]
    /\ Install(World)
    /\ DaemonFrame

\* haproxy mode: systemctl start haproxy, a failure being a warning.
DaemonStartsService ==
    /\ daemonProc.pc = "read" /\ daemonProc.mode = "haproxy"
    /\ \E h \in StartOutcomes : Install(systemctl_start_haproxy(World, h))
    /\ daemonProc' = [daemonProc EXCEPT !.pc = "set"]
    /\ DaemonFrame

\* self.running = True; outside mode none the manager is fetched next.
DaemonSetsRunning ==
    /\ \/ daemonProc.pc = "set"
       \/ daemonProc.pc = "read" /\ daemonProc.mode # "haproxy"
    /\ daemonProc' =
        IF daemonProc.mode = "none"
        THEN [daemonProc EXCEPT !.running = TRUE, !.pc = "test"]
        ELSE IF get_forward_manager(World) = "none"
        THEN [daemonProc EXCEPT !.running = TRUE, !.pc = "exited",
                                !.tasks = 0]
        ELSE [daemonProc EXCEPT !.running = TRUE, !.manager = TRUE,
                                !.pc = "start_all"]
    /\ Install(World)
    /\ DaemonFrame

\* await self.forward_manager.start_all_forwards(): neither backend's
\* coroutine awaits anything, so it runs to its end; a failure is logged.
DaemonStartsAll ==
    /\ daemonProc.pc = "start_all"
    /\ IF daemonProc.mode = "haproxy"
       THEN \E c \in CommitOutcomes :
                Install([haproxy_start_all_forwards(World, c).w
                            EXCEPT !.daemon = "haproxy"])
       ELSE \E f \in [Ports -> SocatBatchOutcomes] :
                Install([socat_start_all_forwards(World, f).w
                            EXCEPT !.daemon = "socat"])
    /\ daemonProc' = [daemonProc EXCEPT !.pc = "test"]
    /\ DaemonFrame

\* while self.running: the coroutine goes to sleep, or leaves the loop;
\* start() and main() return and asyncio.run cancels the tasks left.
DaemonTestsRunning ==
    /\ daemonProc.pc = "test"
    /\ daemonProc' =
        IF daemonProc.running
        THEN [daemonProc EXCEPT !.pc = "sleeping"]
        ELSE [daemonProc EXCEPT !.pc = "exited", !.tasks = 0]
    /\ Install([World EXCEPT !.daemon = IF daemonProc.running THEN @
                                        ELSE "off"])
    /\ DaemonFrame

\* asyncio.sleep(1) is over.
DaemonWakes ==
    /\ daemonProc.pc = "sleeping"
    /\ daemonProc' = [daemonProc EXCEPT !.pc = "test"]
    /\ Install(World)
    /\ DaemonFrame

\* SIGTERM or SIGINT: handle_signal runs between two statements of the main
\* thread and creates a task for daemon.stop().
SignalArrives ==
    /\ daemonProc.pc \notin {"down", "exited"}
    /\ daemonProc.signals < MaxSignals
    /\ daemonProc' = [daemonProc EXCEPT
            !.tasks = @ + 1, !.signals = @ + 1, !.signalled = TRUE,
            !.early = @ \/ ~daemonProc.running]
    /\ Install(World)
    /\ DaemonFrame

\* What the commands of ForwardDaemon.stop can do: s systemctl stop haproxy,
\* surv the helpers that outlive the kills.
StopEnvs(w, d) ==
    IF ~d.manager THEN {[s |-> "stopped", surv |-> {}]}
    ELSE IF d.mode = "haproxy"
    THEN {[s |-> x, surv |-> {}] : x \in HapStopOutcomes}
    ELSE {[s |-> "stopped", surv |-> v] : v \in SUBSET w.socat}

\* ForwardDaemon.stop with the outcomes of its commands.
stop_task(w, d, e) ==
    IF ~d.manager THEN w
    ELSE IF d.mode = "haproxy" THEN haproxy_stop_all_forwards(w, e.s).w
    ELSE socat_stop_all_forwards(w, e.surv, e.surv).w

\* A stop() that runs as soon as the signal is handled, in the middle of
\* start().
StopTaskRuns_early ==
    /\ daemonProc.tasks > 0
    /\ \E e \in StopEnvs(World, daemonProc) :
        Install(stop_task(World, daemonProc, e))
    /\ daemonProc' = [daemonProc EXCEPT
            !.tasks = @ - 1, !.running = FALSE, !.stopped = TRUE,
            !.stop_all = @ \/ daemonProc.manager]
    /\ DaemonFrame

\* A stop task runs: only while the main coroutine is suspended, which it
\* is in asyncio.sleep alone.  running is cleared and the manager, if there
\* is one, is told to stop all forwards.
StopTaskRuns ==
    /\ daemonProc.pc = "sleeping"
    /\ daemonProc.tasks > 0
    /\ \E e \in StopEnvs(World, daemonProc) :
        Install(stop_task(World, daemonProc, e))
    /\ daemonProc' = [daemonProc EXCEPT
            !.tasks = @ - 1, !.running = FALSE, !.stopped = TRUE,
            !.stop_all = @ \/ daemonProc.manager]
    /\ DaemonFrame

NextDaemon ==
    \/ OperatorSetsMode
    \/ OperatorStoresRule
    \/ DaemonReadsMode
    \/ DaemonStartsService
    \/ DaemonSetsRunning
    \/ DaemonStartsAll
    \/ DaemonTestsRunning
    \/ DaemonWakes
    \/ SignalArrives
    \/ StopTaskRuns

SpecDaemon == InitDaemon /\ [][NextDaemon]_vars

\* The main coroutine goes on from statement to statement and every sleep
\* ends; the event loop runs a task that is ready within one turn, so a stop
\* task is not passed over for ever while the main coroutine sleeps again
\* and again.
SpecDaemonFair ==
    /\ SpecDaemon
    /\ WF_vars(DaemonStartsService \/ DaemonSetsRunning \/ DaemonStartsAll
                    \/ DaemonTestsRunning \/ DaemonWakes)
    /\ SF_vars(StopTaskRuns)

-----------------------------------------------------------------------------
(* The backend contract: properties *)

\* C1: on every backend, after a successful CreateForward(p) of a port no
\* tunnel forwarded, ListForwards includes p; after a successful
\* RemoveForward(p) that follows it, ListForwards no longer includes p.
C1_CreateListRemove ==
    /\ (last.op = "create" /\ last.ok /\ last.fresh)
            => last.p \in ListForwards(World, last.be, last.t)
    /\ (last.op = "remove" /\ last.ok /\ last.after)
            => last.p \notin ListForwards(World, last.be, last.t)

C1_Witness ==
    /\ last.op = "remove" /\ last.ok /\ last.after
    /\ last.be = "haproxy"
    /\ StorePorts(World) # {}

\* C2: on every backend, CreateForward(p) on a port an unrelated process holds
\* fails, and the tunnel files are as they were before the call.
C2_ConflictRejected ==
    [][(last'.op = "create" /\ last'.bound) => (~last'.ok /\ disk' = disk)]_vars

\* C3: a Proxy-Config CreateForward(p) whose commit fails (the validator
\* rejects the candidate, or reload and restart both fail) leaves every
\* tunnel's persisted list as it was before the call.
C3_CreateRollback ==
    [][(/\ last'.op = "create" /\ last'.be = "haproxy"
        /\ last'.why \in {"validate", "reload"})
       => (~last'.ok /\ disk' = disk)]_vars

C3_Witness ==
    /\ last.op = "create" /\ last.be = "haproxy" /\ last.why = "reload"
    /\ disk[last.t] # <<>>
    /\ last.p \notin Range(disk[last.t])

\* C4: a Proxy-Config RemoveForward(p) of a forwarded port whose commit fails
\* returns failure and leaves every tunnel's set of forwarded ports as it was,
\* p still among them.
C4_RemoveRollback ==
    [][(/\ last'.op = "remove" /\ last'.be = "haproxy"
        /\ last'.why \in {"validate", "reload"})
       => (/\ ~last'.ok
           /\ \A t \in Tunnels : Range(disk'[t]) = Range(disk[t])
           /\ last'.p \in Range(disk'[last'.t]))]_vars

C4_Witness ==
    /\ last.op = "remove" /\ last.be = "haproxy" /\ last.why = "reload"
    /\ Len(disk[last.t]) > 1
    /\ last.p \in Range(disk[last.t])

\* C5: when the validator rejects the candidate, the commit fails and the live
\* configuration file is what it was before the commit.
C5_ValidatorRejects ==
    [][(last'.why = "validate") => (~last'.ok /\ liveCfg' = liveCfg)]_vars

C5_Witness ==
    /\ last.why = "validate" /\ last.op = "remove"
    /\ liveCfg.generated
    /\ last.p \in CfgPorts(liveCfg)

\* C6: after a Proxy-Config CreateForward or RemoveForward returns, with
\* success or failure, the live configuration binds exactly the ports the
\* tunnel files forward.
C6_LiveMatchesStore ==
    (last.op \in {"create", "remove"} /\ last.be = "haproxy")
        => CfgPorts(liveCfg) = StorePorts(World)

\* C12: on every backend, RemoveForward(p) of a port the tunnel does not
\* forward is answered not-found and leaves the tunnel files, the haproxy
\* configuration and every listener as they were, however often it is
\* repeated.
C12_RemoveNotFound ==
    [][(last'.op = "remove" /\ last'.p \notin Range(disk[last'.t]))
        => (/\ ~last'.ok /\ last'.why = "not_found"
            /\ disk' = disk /\ mem' = mem
            /\ liveCfg' = liveCfg /\ backupCfg' = backupCfg
            /\ hapRunning' = hapRunning /\ hapBound' = hapBound
            /\ socatProcs' = socatProcs /\ servers' = servers)]_vars

\* The same remove of a port that is not forwarded, a second time in a row,
\* while a socat helper of another forward runs.
C12_Witness ==
    /\ last.op = "remove" /\ last.why = "not_found" /\ last.again
    /\ last.be = "socat"
    /\ socatProcs # {} /\ StorePorts(World) # {}

\* C17: with the HAProxy or the socat backend, no port is in the forwarded
\* list of two tunnels.
C17_OneTunnelPerPort ==
    (backend \in {"haproxy", "socat"})
        => \A t \in Tunnels, u \in Tunnels :
                t # u => Range(disk[t]) \cap Range(disk[u]) = {}

NoDuplicates(s) == \A i \in 1..Len(s), j \in 1..Len(s) : s[i] = s[j] => i = j

\* C18: no tunnel file lists a port twice, and CreateForward(p) of a port the
\* tunnel already forwards fails and leaves the tunnel files as they were.
C18_UniquePerTunnel ==
    [][/\ \A t \in Tunnels : NoDuplicates(disk'[t])
       /\ (last'.op = "create" /\ last'.p \in Range(disk[last'.t]))
            => (~last'.ok /\ disk' = disk)]_vars

\* C19: once haproxy.cfg.bak exists, no step changes it.
C19_BackupWrittenOnce ==
    [][backupCfg.exists => backupCfg' = backupCfg]_vars

\* A remove has committed after the create that made the backup: the backup
\* is still the file the package installed, the live file is a generated one.
C19_Witness ==
    /\ last.op = "remove" /\ last.be = "haproxy" /\ last.ok
    /\ backupCfg = ExternalFile
    /\ liveCfg.generated /\ liveCfg.stanzas # <<>>

C25_FailureReported ==
    /\ (last.op = "stop_all" /\ last.be = "haproxy" /\ last.ok)
            => ~hapRunning
    /\ (last.op = "stop_all" /\ last.be = "socat" /\ last.ok)
            => socatProcs = {}
    /\ (last.op = "start_all" /\ last.be = "haproxy" /\ last.ok
            /\ last.why # "none")
            => hapRunning

\* The pairs of a configuration that belong to port p of tunnel t.
PairsOf(cfg, t, p) ==
    {i \in 1..Len(cfg.stanzas) :
        cfg.stanzas[i].tunnel = t /\ cfg.stanzas[i].port = p}

C29_StoreUntouched ==
    [][last'.op \in {"start_all", "stop_all", "validate"}
            => disk' = disk /\ mem' = mem]_vars

\* A start_all_forwards has failed with rules in the store.
C29_Witness ==
    /\ last.op = "start_all" /\ ~last.ok
    /\ StorePorts(World) # {}

\* C30: create_forward of the socat backend saves the port only when the
\* helper was launched and the port was seen listening; when it fails, for
\* whatever reason, the tunnel files are as they were.
C30_SocatSavesLast ==
    [][(last'.op = "create" /\ last'.be = "socat")
            => IF last'.ok
               THEN /\ last'.p \in socatProcs'
                    /\ disk' = [disk EXCEPT
                            ![last'.t] = Append(@, last'.p)]
               ELSE disk' = disk /\ mem' = mem]_vars

\* The helper was launched for a port nobody forwarded, the port did not
\* come up, and the port is not in the store.
C30_Witness ==
    /\ last.op = "create" /\ last.be = "socat"
    /\ ~last.ok /\ last.why = "no_listen" /\ last.fresh
    /\ last.p \notin StorePorts(World)

\* Some process listens on port p.
Listening(bound, procs, other, p) == p \in (bound \cup procs \cup other)

\* C31: remove_forward of the socat backend takes the port out of the
\* tunnel's list only when the port was seen not listening after the
\* signal; while the port still listens the call fails and the list keeps
\* it; the helpers of the other ports and all other rules stay as they were.
C31_SocatRemoveConfirmed ==
    [][(last'.op = "remove" /\ last'.be = "socat")
            => /\ disk' # disk
                    => /\ last'.ok
                       /\ ~Listening(hapBound', socatProcs', otherBound',
                                     last'.p)
               /\ (last'.p \in Range(disk[last'.t])
                        /\ Listening(hapBound', socatProcs', otherBound',
                                     last'.p))
                    => ~last'.ok /\ disk' = disk
               /\ socatProcs' \ {last'.p} = socatProcs \ {last'.p}
               /\ \A t \in Tunnels :
                    disk'[t] \in {disk[t],
                                  IF t = last'.t /\ last'.p \in Range(disk[t])
                                  THEN RemoveFirst(disk[t], last'.p)
                                  ELSE disk[t]}]_vars

\* The helper of a forwarded port survived the signal: the call failed and
\* the port is still in the list and still listening, beside another helper.
C31_Witness ==
    /\ last.op = "remove" /\ last.be = "socat" /\ ~last.ok
    /\ last.why = "still_listening"
    /\ last.p \in Range(disk[last.t]) /\ last.p \in socatProcs
    /\ socatProcs # {last.p}

-----------------------------------------------------------------------------
(* The menu and the daemon: properties *)

RealModes == Modes \ {"none"}

\* C7: a step that persists a new mode is taken by a switch handler that has
\* finished stopping the mode being left (the daemon is down and, if the stop
\* commands worked, the old backend holds no port); a step of the switch that
\* invokes a backend's start_all_forwards is taken with the new mode already
\* persisted, and invokes the new mode's backend.
C7_StopPersistStart ==
    [][/\ (mode' # mode)
            => /\ sw.pc = "stopped" /\ sw.from = mode /\ sw.to = mode'
               /\ (mode \in RealModes => daemon = "off")
               /\ (sw.clean => BoundBy(World, mode) = {})
       /\ (last'.op = "switch_start" /\ last'.started # "none")
            => /\ sw.pc = "persisted" /\ mode = sw.to
               /\ last'.started = sw.to /\ daemon' = sw.to]_vars

C7_Witness ==
    /\ last.op = "switch_start"
    /\ last.from \in RealModes /\ last.to \in RealModes
    /\ last.started = last.to /\ mode = last.to /\ daemon = last.to
    /\ BoundBy(World, last.to) # {}

\* C8: no port is held by haproxy and by a socat helper at the same time.
C8_NoDoubleBinding ==
    BoundBy(World, "haproxy") \cap BoundBy(World, "socat") = {}

\* The new backend's start_all_forwards has run while the old backend, whose
\* stop failed, still holds a port.
C8_Witness ==
    /\ last.op = "switch_start"
    /\ last.from \in RealModes /\ last.started = last.to
    /\ ~last.clean
    /\ BoundBy(World, last.from) # {}

\* C9: a switch between two backends, made when the old backend holds exactly
\* the forwarded ports, that went through the start with every command doing
\* what it was asked, ends with no port held by the old backend and the new
\* backend holding exactly the ports the old one held.
C9_SwitchRebinds ==
    (/\ last.op = "switch_start"
     /\ last.from \in RealModes /\ last.to \in RealModes
     /\ last.started = last.to /\ last.clean
     /\ last.snap = StorePorts(World))
        => /\ BoundBy(World, last.from) = {}
           /\ BoundBy(World, last.to) = last.snap

\* C10: an add or remove request made while the mode is socat leaves HAProxy
\* alone: its configuration file and its process are what they were.
C10_ModeBackendOnly ==
    [][(last'.op \in {"menu_add", "menu_remove"} /\ mode = "socat")
        => (/\ liveCfg' = liveCfg /\ backupCfg' = backupCfg
            /\ hapRunning' = hapRunning /\ hapBound' = hapBound)]_vars

\* C11: while the persisted mode is "none", an add, remove, restart or
\* validate request of the menu starts, reloads or restarts no backend
\* process and binds no port: haproxy and the socat helpers are what they
\* were.
C11_DisabledNoOp ==
    [][(/\ mode = "none"
        /\ last'.op \in {"menu_add", "menu_remove", "menu_restart",
                         "menu_validate"})
        => (/\ hapRunning' = hapRunning /\ hapBound' = hapBound
            /\ socatProcs' = socatProcs)]_vars

-----------------------------------------------------------------------------
(* Batch requests and the global mode: properties *)

\* The ports a specification names, in order: a port for a number, every
\* port from a to b for "a-b", nothing for a token that is neither.
RECURSIVE NamedPorts(_, _)
NamedPorts(toks, i) ==
    IF i > Len(toks) THEN <<>>
    ELSE socat_token(toks[i]).ports \o NamedPorts(toks, i + 1)

\* The single-port call made for each port of a list, one after the other.
RECURSIVE OneByOne(_, _, _, _, _, _)
OneByOne(w, op, be, t, ports, i) ==
    IF i > Len(ports) THEN w
    ELSE OneByOne(batch_single(w, op, be, t, ports[i]).w, op, be, t, ports,
                  i + 1)

Forwarded(d) == [t \in Tunnels |-> Range(d[t])]

\* C13: on every backend, AddMultiple of a specification of ports and
\* invalid tokens (no range) leaves the forwarded sets as the CreateForward
\* calls of its valid ports, made one after the other, leave them: no token
\* stops the tokens after it.
C13_TokensIndependent ==
    [][(/\ last'.op = "add_multiple"
        /\ \A i \in 1..Len(last'.tokens) : "-" \notin Range(last'.tokens[i]))
        => Forwarded(disk')
            = Forwarded(OneByOne(World, "add_multiple", last'.be, last'.t,
                                 NamedPorts(last'.tokens, 1), 1).disk)]_vars

\* C14: with the HAProxy and the socat backend, a batch of ports and ranges
\* "a-b", a <= b, leaves the forwarded sets as the single-port calls for
\* every named port, each range standing for all ports from a to b.
C14_RangeAccepted ==
    [][(/\ last'.op \in {"add_multiple", "remove_multiple"}
        /\ last'.be \in {"haproxy", "socat"}
        /\ \A i \in 1..Len(last'.tokens) : socat_token(last'.tokens[i]).ok)
        => Forwarded(disk')
            = Forwarded(OneByOne(World, last'.op, last'.be, last'.t,
                                 NamedPorts(last'.tokens, 1), 1).disk)]_vars

\* A token of the last batch was applied: it names ports, and each of them
\* was added to (removed from) the tunnel's forwarded set by the call.
Applied(i) ==
    LET ps == Range(socat_token(last.tokens[i]).ports)
        now == Range(disk[last.t])
    IN  /\ ps # {}
        /\ IF last.op = "add_multiple"
           THEN ps \cap last.before = {} /\ ps \subseteq now
           ELSE ps \subseteq last.before /\ ps \cap now = {}

\* C15: after a batch add or remove on any backend, every token that was not
\* applied has an entry of its own, reporting a failure, in the result.
C15_EveryItemReported ==
    (last.op \in {"add_multiple", "remove_multiple"})
        => \A i \in 1..Len(last.tokens) :
                ~Applied(i)
                    => \E k \in 1..Len(last.entries) :
                            last.entries[k].tok = i /\ ~last.entries[k].ok

\* The ForwardingMode enum of the specification: Disabled, Relay,
\* ProxyConfig, ProcessPerPort.
ForwardingMode == {"none", "relay", "haproxy", "socat"}

\* C16: setting the mode succeeds exactly for the four values of the enum,
\* a rejected set leaves the persisted mode as it was, and the mode read is
\* always a value of the enum.
C16_ModeEnum ==
    /\ forward_mode_get(World) \in ForwardingMode
    /\ (last.op = "set_mode")
        => /\ last.ok <=> last.value \in ForwardingMode
           /\ ~last.ok => mode = last.prev

-----------------------------------------------------------------------------
(* Relay connections: properties *)

\* C20: once the handler of an accepted connection has finished, on whatever
\* path, its session is not in active_sessions.
C20_SessionRemoved ==
    \A c \in Conns : conn[c].pc = "finished" => c \notin active_sessions

\* C23: at every moment the counters of every session equal the bytes read
\* from its client and from its remote target, and the listener's totals
\* equal the sums of the session counters over all the sessions it has
\* handled.
C23_ByteCounters ==
    /\ \A c \in Conns :
        /\ conn[c].bytes_sent = conn[c].from_client
        /\ conn[c].bytes_received = conn[c].from_remote
    /\ stats.total_bytes_sent
            = Sum([c \in Conns |-> conn[c].bytes_sent], Conns)
    /\ stats.total_bytes_received
            = Sum([c \in Conns |-> conn[c].bytes_received], Conns)

\* Two sessions have been handled; one echoed a byte, the other read a byte
\* from its client that it could not write to the remote target.
C23_Witness ==
    \E c \in Conns, e \in Conns :
        /\ c # e
        /\ conn[c].pc = "finished"
        /\ conn[c].bytes_sent = 1 /\ conn[c].bytes_received = 1
        /\ conn[e].from_client = 1 /\ conn[e].fwd # "run"
        /\ stats.total_bytes_sent = 2

-----------------------------------------------------------------------------
(* Relay listeners: properties *)

\* C21: once stop_all_forwards of the relay manager has returned, and until
\* create_forward or start_all_forwards is called again, no listening socket
\* of the backend is bound.
C21_StopAllUnbinds ==
    last.quiet => ListenerPorts(fservers) = {}

\* C22: when start_all_forwards returns, every forwarded port has a
\* ForwardServer that is running or has a start task waiting; and a start
\* task, whether its bind succeeds or fails, changes no ForwardServer but
\* its own.
C22_StartAllIndependent ==
    [][/\ (last'.op = "start_all")
            => \A p \in Range(mem'["t1"]) :
                    /\ serverOf'[p] # 0
                    /\ (fservers'[serverOf'[p]].running
                            \/ fservers'[serverOf'[p]].tasks > 0)
       /\ (last'.op = "task")
            => \A i \in ServerIds, j \in ServerIds :
                    (fservers'[i].tasks < fservers[i].tasks /\ j # i)
                        => fservers'[j] = fservers[j]]_vars

\* The bind of one forwarded port has failed, an unrelated process holding
\* it, and the listener of another forwarded port is up.
C22_Witness ==
    /\ last.op = "task"
    /\ \E p \in Range(mem["t1"]), q \in Range(mem["t1"]) :
        /\ p # q /\ serverOf[p] # 0 /\ serverOf[q] # 0
        /\ p \in otherBound /\ ~last.ok
        /\ ~fservers[serverOf[p]].bound /\ ~fservers[serverOf[p]].running
        /\ fservers[serverOf[q]].bound /\ fservers[serverOf[q]].running

-----------------------------------------------------------------------------
(* The commit, step by step: properties *)

\* The steps of a commit come in the order of the protocol.
InOrder(h) ==
    \A i \in 1..Len(h) :
        /\ h[i] = "write_tmp" => i = 1
        /\ h[i] \in {"validate_ok", "validate_failed"}
                => i > 1 /\ h[i - 1] = "write_tmp"
        /\ h[i] = "replace" => i > 1 /\ h[i - 1] = "validate_ok"
        /\ h[i] \in {"reload_ok", "reload_failed"}
                => i > 1 /\ h[i - 1] = "replace"
        /\ h[i] \in {"restart_ok", "restart_failed"}
                => i > 1 /\ h[i - 1] = "reload_failed"

\* C26: in every commit the candidate is written to the temporary file
\* first, the validator runs on it next, the live file changes only in the
\* replacement step that follows a successful validation, the reload comes
\* only after the replacement, and the restart only after a failed reload.
C26_CommitOrder ==
    [][/\ InOrder(commitStep'.hist)
       /\ liveCfg' # liveCfg
            => /\ commitStep.hist # <<>>
               /\ commitStep.hist[Len(commitStep.hist)] = "validate_ok"
               /\ commitStep'.hist = Append(commitStep.hist, "replace")
               /\ liveCfg' = commitStep.tmp]_vars

\* A commit went through all five steps and the call has returned.
C26_Witness ==
    /\ commitStep.pc = "idle"
    /\ commitStep.hist = <<"write_tmp", "validate_ok", "replace",
                       "reload_failed", "restart_ok">>
    /\ liveCfg.generated

\* C28: the backup, whenever it exists, is a file this system has not
\* generated: the configuration found on disk before the first generated
\* write.
C28_BackupIsExternal ==
    backupCfg.exists => ~backupCfg.generated

-----------------------------------------------------------------------------
(* stop_all_forwards of the socat backend, poll by poll: properties *)

\* What a stop_all_forwards has done so far: at most wait_steps polls, and
\* kill -9 only after the last of them.
StopConsistent ==
    /\ stopStep.polls <= wait_steps
    /\ stopStep.killed # {} => stopStep.polls = wait_steps
    /\ stopStep.pc = "verify" => stopStep.killed # {}
    /\ stopStep.pc = "returned" => stopStep.why \in {"ok", "forced", "stuck"}

\* The step that produces the result: "ok" when a poll of the grace window
\* found no helper and nothing was force-killed, "forced" when the window
\* went by and no helper is found afterwards, "stuck" when the final
\* verification finds helpers.
StopResult ==
    (stopStep'.pc = "returned" /\ stopStep.pc # "returned") =>
        /\ stopStep'.why = "ok"
                => /\ stopStep.pc = "polling" /\ stopStep.polls < wait_steps
                   /\ socatProcs = {} /\ stopStep'.killed = {}
        /\ stopStep'.why = "forced"
                => stopStep.polls = wait_steps /\ socatProcs = {}
        /\ stopStep'.why = "stuck"
                => /\ stopStep.pc = "verify" /\ stopStep.killed # {}
                   /\ socatProcs # {}

\* C32: a stop_all_forwards of the socat backend that was called returns,
\* after at most wait_steps polls of the grace window; it force-kills only
\* after that window and only the helpers then alive; and its result is
\* "ok" for a clean stop, "forced" for a stop that outlasted the window, and
\* the failure "stuck" when helpers are alive at the final verification.
C32_StopAllBounded ==
    /\ []StopConsistent
    /\ [][StopResult]_vars
    /\ [][stopStep'.killed # stopStep.killed
            => \/ stopStep'.killed = {}
               \/ stopStep'.killed = socatProcs /\ socatProcs' = socatProcs]_vars
    /\ (stopStep.pc # "idle") ~> (stopStep.pc = "idle")

\* A stop has returned the failure: a helper outlived the grace window and
\* kill -9.
C32_Witness ==
    /\ stopStep.pc = "returned" /\ stopStep.why = "stuck"
    /\ stopStep.polls = wait_steps /\ stopStep.killed # {}

-----------------------------------------------------------------------------
(* Relay listeners: flag, socket and start tasks *)

\* C36: every ForwardServer has its running flag set exactly when it holds
\* its port, and no port has more than one start task waiting.
C36_RunningIffBound ==
    /\ \A i \in ServerIds : fservers[i].running <=> fservers[i].bound
    /\ \A p \in Ports :
            Sum([i \in ServerIds |->
                    IF fservers[i].port = p THEN fservers[i].tasks ELSE 0],
                ServerIds) <= 1

-----------------------------------------------------------------------------
(* Relay connections: the handler and its two relay tasks *)

\* The connections whose outbound connect has failed and whose handler is
\* past the except branch.
FailedConnects ==
    {c \in Conns : conn[c].pc \in {"final_close", "finished"}
                    /\ conn[c].fwd = "none"}

\* The connections whose handler has seen a relay task raise.
FailedRelays ==
    {c \in Conns : conn[c].pc \in {"final_close", "finished"}
                    /\ "raised" \in {conn[c].fwd, conn[c].bwd}}

\* C33: a connection whose outbound connect failed or timed out gets its
\* client side closed, adds exactly one to errors, never has a relay task,
\* and its handler, however it ends, changes no other connection.
C33_ConnectFailure ==
    /\ [](/\ stats.errors = Cardinality(FailedConnects \cup FailedRelays)
          /\ \A c \in FailedConnects :
                /\ conn[c].bwd = "none" /\ conn[c].lost # "open"
                /\ conn[c].bytes_sent = 0 /\ conn[c].bytes_received = 0)
    /\ [][\A c \in Conns :
            /\ (conn[c].pc = "connecting" /\ conn'[c].pc = "fail_close")
                    => /\ conn'[c].fwd = "none" /\ conn'[c].bwd = "none"
                       /\ stats' = stats
            /\ (conn[c].pc = "fail_close" /\ conn'[c] # conn[c])
                    => /\ stats'.errors = stats.errors + 1
                       /\ conn'[c].pc = "final_close"
                       /\ \A d \in Conns \ {c} : conn'[d] = conn[d]
            /\ (c \in FailedConnects /\ conn'[c] # conn[c])
                    => /\ stats' = stats
                       /\ conn'[c].pc = "finished"
                       /\ \A d \in Conns \ {c} : conn'[d] = conn[d]]_vars

\* One connection's connect has failed and its handler has finished, counted
\* once, while another connection accepted by the same listener is relaying.
C33_Witness ==
    \E c \in Conns, d \in Conns :
        /\ c # d
        /\ c \in FailedConnects /\ conn[c].pc = "finished"
        /\ conn[d].pc = "relaying"
        /\ stats.errors = 1 /\ stats.connections = 2

\* C34: the handler of a connected connection is at its cleanup, or past it,
\* only when both of its relay tasks have ended.
C34_CleanupAfterBoth ==
    \A c \in Conns :
        (conn[c].pc \in {"final_close", "finished"} /\ conn[c].fwd # "none")
            => /\ conn[c].fwd \in {"done", "raised"}
               /\ conn[c].bwd \in {"done", "raised"}

\* C35: once one relay task of a connection has left its loop, the other
\* ends too and the session leaves active_sessions.
C35_SessionDestroyed ==
    \A c \in Conns :
        (conn[c].fwd \in {"closing", "done", "raised"}
                \/ conn[c].bwd \in {"closing", "done", "raised"})
            ~> (/\ conn[c].fwd \in {"done", "raised"}
                /\ conn[c].bwd \in {"done", "raised"}
                /\ c \notin active_sessions)

-----------------------------------------------------------------------------
(* Two manager instances: properties *)

\* C38: when a successful create_forward of one instance directly follows a
\* successful create_forward of the other instance for another port, both
\* ports are in the tunnel's file.
C38_BothPortsStored ==
    [][(/\ last.op = "create" /\ last.ok
        /\ last'.op = "create" /\ last'.ok
        /\ last'.m # last.m /\ last'.p # last.p)
            => {last.p, last'.p} \subseteq Range(disk'["t1"])]_vars

-----------------------------------------------------------------------------
(* The forward daemon: properties *)

\* C37: a daemon that a termination signal has reached leaves its run loop,
\* its manager, if it has one, having been told to stop all forwards; and
\* running is never set once stop() has cleared it.
C37_StopNeverLost ==
    /\ [][(daemonProc'.running /\ ~daemonProc.running)
                => ~daemonProc.stopped]_vars
    /\ daemonProc.signalled
            ~> (/\ daemonProc.pc = "exited"
                /\ daemonProc.manager => daemonProc.stop_all)

\* A signal reached the daemon before running was set, and the daemon, which
\* had started a backend, has stopped it and left its loop.
C37_Witness ==
    /\ daemonProc.pc = "exited" /\ daemonProc.early
    /\ daemonProc.manager /\ daemonProc.stop_all /\ ~daemonProc.running
    /\ disk["t1"] # <<>>

====
